---- MODULE Spec2Model ----
(***************************************************************************)
(* pglint statement splitter (src/src/splitIntoStatements.ts) as a state   *)
(* machine.  A text is a sequence of one-character strings; offsets are    *)
(* 0-based as in the source, so the character at offset o is text[o + 1].  *)
(* One action is one iteration of the scan loop of splitIntoStatements (or *)
(* one continuation after an await); the recursion on @include is a stack  *)
(* of frames, one per active call.                                         *)
(***************************************************************************)
EXTENDS Integers, Sequences, FiniteSets, TLC

VARIABLES
    files,      \* the file system: file name -> [kind, text]
    stack,      \* the active calls of splitIntoStatements, innermost last
    returned,   \* the Statement[] the top-level call resolved with
    phase,      \* "split" while the top-level call runs, then "done"
    LINE_STARTS_CACHE,  \* file name -> the offsets its lines start at, or NoEntry
    FILE_LENGTHS_CACHE, \* file name -> the length of its text, or NoLength
    collection, \* the DiagnosticCollection: file name -> its diagnostics
    lint        \* what runs behind the split: its locals and where it is

caches == <<LINE_STARTS_CACHE, FILE_LENGTHS_CACHE>>

vars == <<files, stack, returned, phase, caches, collection, lint>>

----------------------------------------------------------------------------
(* Bounds of the model.                                                    *)

MaxPieces == 4      \* pieces of a root text made of quote or comment pieces
MaxLines == 3       \* lines of a root text made of directive lines
MaxDepth == 4       \* active calls; more than the number of files
MaxLintLines == 2   \* lines of a root text whose statements are sent to the backend
MaxMixed == 5       \* pieces of a root text made of comment marks and @include lines

----------------------------------------------------------------------------
(* Characters and strings.                                                 *)

Letter ==
    {"a","b","c","d","e","f","g","h","i","j","k","l","m","n","o","p","q",
     "r","s","t","u","v","w","x","y","z",
     "A","B","C","D","E","F","G","H","I","J","K","L","M","N","O","P","Q",
     "R","S","T","U","V","W","X","Y","Z"}

Digit == {"0","1","2","3","4","5","6","7","8","9"}

\* /[\s\r\n]/
IsSpace(c) == c \in {" ", "\n", "\r", "\t"}

Drop(s, n) == SubSeq(s, n + 1, Len(s))

Take(s, n) == SubSeq(s, 1, n)

StartsWith(s, p) == Len(s) >= Len(p) /\ Take(s, Len(p)) = p

RECURSIVE TrimStart(_)
TrimStart(s) ==
    IF s # <<>> /\ IsSpace(s[1]) THEN TrimStart(Tail(s)) ELSE s

RECURSIVE TrimEnd(_)
TrimEnd(s) ==
    IF s # <<>> /\ IsSpace(s[Len(s)]) THEN TrimEnd(Take(s, Len(s) - 1)) ELSE s

Trim(s) == TrimEnd(TrimStart(s))

\* String.prototype.indexOf: the first 0-based index of needle in hay, or -1.
RECURSIVE IndexFrom(_, _, _)
IndexFrom(hay, needle, k) ==
    IF k + Len(needle) > Len(hay) THEN -1
    ELSE IF SubSeq(hay, k + 1, k + Len(needle)) = needle THEN k
    ELSE IndexFrom(hay, needle, k + 1)

IndexOf(hay, needle) == IndexFrom(hay, needle, 0)

RECURSIVE Flatten(_)
Flatten(ss) == IF ss = <<>> THEN <<>> ELSE Head(ss) \o Flatten(Tail(ss))

----------------------------------------------------------------------------
(* Constants of splitIntoStatements.ts.                                    *)

AtInclude == <<"@","i","n","c","l","u","d","e">>

AtTemplate == <<"@","t","e","m","p","l","a","t","e">>

\* RegExp.test for /^@word(:|\s)/
TestPrefix(word, s) ==
    /\ StartsWith(s, word)
    /\ Len(s) > Len(word)
    /\ (s[Len(word) + 1] = ":" \/ IsSpace(s[Len(word) + 1]))

\* String.replace with /^@word(:|\s)/ and ''
ReplacePrefix(word, s) ==
    IF TestPrefix(word, s) THEN Drop(s, Len(word) + 1) ELSE s

INCLUDE_PREFIX(s) == TestPrefix(AtInclude, s)

TEMPLATE_PREFIX(s) == TestPrefix(AtTemplate, s)

TEMPLATE_DIRECTIVE_ERROR_FIRST ==
    "Only one template directive is allowed, and it must come before any other statements."

ErrEmptyInclude == "include directive must be a non-empty string"

ErrNotFile == "include path is not a file"

ErrNoEnt == "ENOENT: no such file or directory"

----------------------------------------------------------------------------
(* Location and Statement.  An absent optional field holds the value that  *)
(* JavaScript treats as falsy: NoLoc, the empty text, the empty string.    *)

NoLoc == [uri |-> "", startOffset |-> -1, length |-> -1]

getLocationFromEndOffset(uri, startOffset, endOffset) ==
    [uri |-> uri, startOffset |-> startOffset, length |-> endOffset - startOffset]

getLocationFromLength(uri, startOffset, length) ==
    getLocationFromEndOffset(uri, startOffset, startOffset + length)

Statement(location, sql, error, template) ==
    [includedAt |-> NoLoc, location |-> location, sql |-> sql,
     error |-> error, template |-> template]

SqlStatement(location, sql) == Statement(location, sql, "", <<>>)

ErrorStatement(location, error) == Statement(location, <<>>, error, <<>>)

TemplateStatement(location, template) == Statement(location, <<>>, "", template)

quote(s) == IF StartsWith(s, <<"\"">>) THEN s ELSE <<"\"">> \o s \o <<"\"">>

\* quotedEqual without quote
quotedEqual_Exact(a, b) == a = b

quotedEqual(a, b) == quote(a) = quote(b)

----------------------------------------------------------------------------
(* validateDatabaseName: the message of the Error it throws, "" when the   *)
(* name is accepted.                                                       *)

\* The character U+0000, which a TLA+ string cannot hold, by its name.
Nul == "NUL"

RECURSIVE QuotesEscaped(_, _)
QuotesEscaped(content, i) ==
    IF i > Len(content) THEN TRUE
    ELSE IF content[i] = "\""
         THEN IF i + 1 <= Len(content) /\ content[i + 1] = "\""
              THEN QuotesEscaped(content, i + 2)
              ELSE FALSE
         ELSE QuotesEscaped(content, i + 1)

\* /^[a-zA-Z_][a-zA-Z0-9_]*$/
ValidUnquotedName(name) ==
    /\ name # <<>>
    /\ name[1] \in Letter \cup {"_"}
    /\ \A i \in 2..Len(name) : name[i] \in Letter \cup Digit \cup {"_"}

validateDatabaseName(name) ==
    IF Len(name) = 0 THEN "Database name cannot be empty"
    ELSE IF \E i \in 1..Len(name) : name[i] = Nul
         THEN "Database name cannot contain null bytes"
    ELSE IF name[1] = "\"" /\ name[Len(name)] = "\""
         THEN IF QuotesEscaped(SubSeq(name, 2, Len(name) - 1), 1)
              THEN ""
              ELSE "Database name contains unescaped quotes"
         ELSE IF ValidUnquotedName(name)
              THEN ""
              ELSE "Database name must either be quoted, or start with a letter or underscore and contain only letters, numbers, and underscores"

----------------------------------------------------------------------------
(* The regular expressions of the scan loop.                               *)

\* The first index >= k (1-based) of a "\r" or "\n" in s, Len(s) + 1 if none.
RECURSIVE RunEnd(_, _)
RunEnd(s, k) ==
    IF k > Len(s) \/ s[k] \in {"\r", "\n"} THEN k ELSE RunEnd(s, k + 1)

\* s.match(/[^\r\n]*(\r?\n|$)/)[0]: the leftmost match, tried from index k on.
\* A run that stops at a "\r" with no "\n" behind it does not match, and the
\* search moves on to the next start.
RECURSIVE CommentLineFrom(_, _)
CommentLineFrom(s, k) ==
    LET e == RunEnd(s, k) IN
    IF e > Len(s) THEN SubSeq(s, k, Len(s))
    ELSE IF s[e] = "\n" THEN SubSeq(s, k, e)
    ELSE IF e + 1 <= Len(s) /\ s[e + 1] = "\n" THEN SubSeq(s, k, e + 1)
    ELSE CommentLineFrom(s, k + 1)

CommentLine(s) == CommentLineFrom(s, 1)

IdentStart(c) == c \in Letter \cup {"_"}

IdentChar(c) == c \in Letter \cup Digit \cup {"_"}

RECURSIVE IdentRun(_, _)
IdentRun(s, k) == IF k <= Len(s) /\ IdentChar(s[k]) THEN IdentRun(s, k + 1) ELSE k

\* slice.match(DOLLAR_TAG)[0], where DOLLAR_TAG is a "$", an optional identifier
\* (a letter or "_", then letters, digits or "_"; the non-ASCII letters of the
\* source's character class occur in no text of the model) and a "$";
\* <<>> when there is no match.
DollarTag(slice) ==
    IF Len(slice) < 2 \/ slice[1] # "$" THEN <<>>
    ELSE IF slice[2] = "$" THEN <<"$", "$">>
    ELSE IF ~IdentStart(slice[2]) THEN <<>>
    ELSE LET e == IdentRun(slice, 2) IN
         IF e <= Len(slice) /\ slice[e] = "$" THEN Take(slice, e) ELSE <<>>

\* A dollar-quote branch that takes a tag without a closing tag as open to the
\* end of the text, the way an unclosed quote character is.
DollarQuotedText_OpenToEnd(slice) ==
    LET dollarTag == DollarTag(slice) IN
    IF dollarTag = <<>> THEN <<>>
    ELSE LET endTagPos == IndexOf(Drop(slice, Len(dollarTag)), dollarTag) IN
         IF endTagPos > -1 THEN Take(slice, endTagPos + Len(dollarTag) * 2) ELSE slice

\* The quoted text the dollar-quote branch copies, <<>> when the branch falls
\* through (no tag, or no closing tag behind it).
DollarQuotedText(slice) ==
    LET dollarTag == DollarTag(slice) IN
    IF dollarTag = <<>> THEN <<>>
    ELSE LET endTagPos == IndexOf(Drop(slice, Len(dollarTag)), dollarTag) IN
         IF endTagPos > -1 THEN Take(slice, endTagPos + Len(dollarTag) * 2) ELSE <<>>

\* The backtick character (the lexer of TLA+ has no string for it).
Backtick == "BACKTICK"

\* IsQuoteStart with the backtick forgotten.
IsQuoteStart_NoBacktick(c) == c \in {"\"", "'"}

\* ['"', "'", BACKTICK].includes(char)
IsQuoteStart(c) == c \in {"\"", "'", Backtick}

----------------------------------------------------------------------------
(* tryInclude.  A path is resolved against the directory of the including  *)
(* file; the files of the model live in one directory under one-character  *)
(* names, so a path names a file when, normalized, it is such a name.      *)

RECURSIVE Normalize(_)
Normalize(p) == IF StartsWith(p, <<".", "/">>) THEN Normalize(Drop(p, 2)) ELSE p

FileKind(p) ==
    IF Len(p) = 1 /\ p[1] \in DOMAIN files THEN files[p[1]].kind ELSE "missing"

\* The message tryInclude throws for the directive, "" when it returns a file.
tryIncludeError(directive) ==
    IF Trim(directive) = <<>> THEN ErrEmptyInclude
    ELSE LET kind == FileKind(Normalize(Trim(directive))) IN
         IF kind = "missing" THEN ErrNoEnt
         ELSE IF kind # "file" THEN ErrNotFile
         ELSE ""

\* includeUri of the file tryInclude returns.
tryIncludeUri(directive) == Normalize(Trim(directive))[1]

----------------------------------------------------------------------------
(* The position caches, shared by every call and every lint cycle.         *)

\* Map.get of a key the map does not hold (no file has a line that starts at
\* offset -1, nor the length -1).
NoEntry == <<-1>>

NoLength == -1

Files == {"R", "A", "B"}

\* The starts that cacheLineStarts collects from offset i on: the offset behind
\* each "\n", and behind each "\r" with its "\n", which the loop steps over.
RECURSIVE LineStarts(_, _)
LineStarts(text, i) ==
    IF i >= Len(text) THEN <<>>
    ELSE IF text[i + 1] = "\n" THEN <<i + 1>> \o LineStarts(text, i + 1)
    ELSE IF text[i + 1] = "\r" /\ Len(text) > i + 1 /\ text[i + 2] = "\n"
         THEN <<i + 2>> \o LineStarts(text, i + 2)
    ELSE LineStarts(text, i + 1)

\* LINE_STARTS_CACHE.clear(); FILE_LENGTHS_CACHE.clear()
clearPositionsCaches ==
    [lineStarts |-> [u \in Files |-> NoEntry], fileLengths |-> [u \in Files |-> NoLength]]

\* The caches after cacheLineStarts(uri, text) on the caches given.
cacheLineStartsOn(lineStarts, fileLengths, uri, text) ==
    IF lineStarts[uri] # NoEntry
    THEN [lineStarts |-> lineStarts, fileLengths |-> fileLengths]
    ELSE [lineStarts |-> [lineStarts EXCEPT ![uri] = LineStarts(text, 0)],
          fileLengths |-> [fileLengths EXCEPT ![uri] = Len(text)]]

\* cacheLineStarts(uri, sql) at the start of a call of splitIntoStatements.
cacheLineStarts(uri) ==
    cacheLineStartsOn(LINE_STARTS_CACHE, FILE_LENGTHS_CACHE, uri, files[uri].text)

----------------------------------------------------------------------------
(* One call of splitIntoStatements: its local variables, and where it is:  *)
(* "scan" in the loop, "await" at the await of the recursive call, and     *)
(* "return" once it has returned its statements.                           *)

NewFrame(uri) ==
    [uri |-> uri, offset |-> 0, quoteChar |-> "", isBlockComment |-> FALSE,
     isStatement |-> FALSE, currentStart |-> 0, currentSql |-> <<>>,
     statements |-> <<>>, pc |-> "scan", location |-> NoLoc]

Top == stack[Len(stack)]

SetTop(f) == [stack EXCEPT ![Len(stack)] = f]

Text(f) == files[f.uri].text

Char(f) == Text(f)[f.offset + 1]

NextChar(f) ==
    IF f.offset < Len(Text(f)) - 1 THEN Text(f)[f.offset + 2] ELSE ""

Scanning ==
    /\ phase = "split"
    /\ stack # <<>>
    /\ Top.pc = "scan"
    /\ Top.offset < Len(Text(Top))

\* pushStatement that stores the trimmed sql
pushStatement_Trimmed(f, endOffset) ==
    [f EXCEPT
        !.statements =
            IF Trim(f.currentSql) # <<>>
            THEN Append(@, SqlStatement(
                    getLocationFromEndOffset(f.uri, f.currentStart, endOffset),
                    Trim(f.currentSql)))
            ELSE @,
        !.currentStart = endOffset + 1,
        !.currentSql = <<>>]

pushStatement(f, endOffset) ==
    [f EXCEPT
        !.statements =
            IF Trim(f.currentSql) # <<>>
            THEN Append(@, SqlStatement(
                    getLocationFromEndOffset(f.uri, f.currentStart, endOffset),
                    f.currentSql))
            ELSE @,
        !.currentStart = endOffset + 1,
        !.currentSql = <<>>]

\* ReturnError without the return
ReturnError_ScansOn(f, location, error) ==
    [f EXCEPT !.statements = Append(@, ErrorStatement(location, error))]

\* The frame after a throw or an error return: the error Statement is pushed and
\* the call returns its statements.
ReturnError(f, location, error) ==
    [f EXCEPT !.statements = Append(@, ErrorStatement(location, error)),
              !.pc = "return"]

----------------------------------------------------------------------------
(* The scan loop, between statements.                                      *)

Between(f) == ~f.isBlockComment /\ ~f.isStatement

AtLineComment(f) == Char(f) = "-" /\ NextChar(f) = "-"

AtBlockComment(f) == Char(f) = "/" /\ NextChar(f) = "*"

\* if (isBlockComment) { ... continue }
BlockCommentStep ==
    /\ Scanning
    /\ Top.isBlockComment
    /\ stack' = SetTop(
            IF Char(Top) = "*" /\ NextChar(Top) = "/"
            THEN [Top EXCEPT !.isBlockComment = FALSE, !.offset = @ + 2]
            ELSE [Top EXCEPT !.offset = @ + 1])
    /\ UNCHANGED <<files, returned, phase, caches, collection, lint>>

\* Skip whitespace between statements
SkipWhitespace ==
    /\ Scanning
    /\ Between(Top)
    /\ IsSpace(Char(Top))
    /\ stack' = SetTop([Top EXCEPT !.offset = @ + 1])
    /\ UNCHANGED <<files, returned, phase, caches, collection, lint>>

\* The locals of the line-comment branch.  An action binds each to its value
\* once, as the source's const declarations do.
commentLine(f) == CommentLine(Drop(Text(f), f.offset + 2))

commentText(line) == TrimEnd(TrimStart(line))

\* startOffset with the whole length of the comment line added
commentStartOffset_BehindLine(f, line) == f.offset + 2 + Len(line)

commentStartOffset(f, line) ==
    f.offset + 2 + (Len(line) - Len(TrimStart(line)))

\* afterComment without offset += commentLine.length
afterComment_DashesOnly(f, line) == f.offset + 2

afterComment(f, line) == f.offset + 2 + Len(line)

directiveLocation(f, line) ==
    getLocationFromLength(f.uri, commentStartOffset(f, line), Len(commentText(line)))

directive(text) ==
    ReplacePrefix(AtTemplate, ReplacePrefix(AtInclude, text))

template(dir) == Trim(dir)

LineCommentHere ==
    /\ Scanning
    /\ Between(Top)
    /\ ~IsSpace(Char(Top))
    /\ AtLineComment(Top)

\* A line comment that is no directive is skipped.
PlainLineComment ==
    /\ LineCommentHere
    /\ \E line \in {commentLine(Top)} : \E text \in {commentText(line)} :
        /\ ~INCLUDE_PREFIX(text)
        /\ ~TEMPLATE_PREFIX(text)
        /\ stack' = SetTop([Top EXCEPT !.offset = afterComment(Top, line)])
    /\ UNCHANGED <<files, returned, phase, caches, collection, lint>>

\* @include of a file tryInclude returns: the recursive call starts, and this
\* call waits for it at the await.  The source sets no limit to the depth; the
\* model follows the recursion MaxDepth calls deep, which only a chain of
\* directives that leads back to a file being split reaches (R, A and B nest
\* three deep), and there the recursion goes on as it began.
IncludeCall ==
    /\ LineCommentHere
    /\ Len(stack) < MaxDepth
    /\ \E line \in {commentLine(Top)} : \E text \in {commentText(line)} :
        /\ INCLUDE_PREFIX(text)
        /\ \E dir \in {directive(text)} :
            /\ tryIncludeError(dir) = ""
            /\ stack' = Append(
                    SetTop([Top EXCEPT !.offset = afterComment(Top, line),
                                       !.location = directiveLocation(Top, line),
                                       !.pc = "await"]),
                    NewFrame(tryIncludeUri(dir)))
            /\ LINE_STARTS_CACHE' = cacheLineStarts(tryIncludeUri(dir)).lineStarts
            /\ FILE_LENGTHS_CACHE' = cacheLineStarts(tryIncludeUri(dir)).fileLengths
    /\ UNCHANGED <<files, returned, phase, collection, lint>>

\* IncludeFailed without the return
IncludeFailed_Continues(f, location, error) ==
    [f EXCEPT !.statements = Append(@, ErrorStatement(location, error))]

\* The catch of the @include branch once tryInclude has thrown.
IncludeFailed(f, location, error) == ReturnError(f, location, error)

\* @include where tryInclude throws.
IncludeError ==
    /\ LineCommentHere
    /\ \E line \in {commentLine(Top)} : \E text \in {commentText(line)} :
        /\ INCLUDE_PREFIX(text)
        /\ \E error \in {tryIncludeError(directive(text))} :
            /\ error # ""
            /\ stack' = SetTop(IncludeFailed(
                    [Top EXCEPT !.offset = afterComment(Top, line)],
                    directiveLocation(Top, line), error))
    /\ UNCHANGED <<files, returned, phase, caches, collection, lint>>

\* templateConflict that never finds a conflict
templateConflict_Never(statements, name) == FALSE

\* templateConflict as statements.length > 0 alone
templateConflict_AnyStatement(statements, name) == Len(statements) > 0

\* statements.length > 0 && templateStatements.length > 0
\*   && templateStatements.some(s => !quotedEqual(template, s.template!))
templateConflict(statements, name) ==
    /\ Len(statements) > 0
    /\ LET templateStatements == SelectSeq(statements, LAMBDA s : s.template # <<>>) IN
        /\ Len(templateStatements) > 0
        /\ \E i \in 1..Len(templateStatements) :
                ~quotedEqual(name, templateStatements[i].template)

\* @template with a name validateDatabaseName rejects.
TemplateInvalid ==
    /\ LineCommentHere
    /\ \E line \in {commentLine(Top)} : \E text \in {commentText(line)} :
        /\ ~INCLUDE_PREFIX(text)
        /\ TEMPLATE_PREFIX(text)
        /\ \E name \in {template(directive(text))} :
           \E error \in {validateDatabaseName(name)} :
            /\ error # ""
            /\ stack' = SetTop(ReturnError(
                    [Top EXCEPT !.offset = afterComment(Top, line)],
                    directiveLocation(Top, line), error))
    /\ UNCHANGED <<files, returned, phase, caches, collection, lint>>

\* @template with a name that differs from a template already in statements.
TemplateRejected ==
    /\ LineCommentHere
    /\ \E line \in {commentLine(Top)} : \E text \in {commentText(line)} :
        /\ ~INCLUDE_PREFIX(text)
        /\ TEMPLATE_PREFIX(text)
        /\ \E name \in {template(directive(text))} :
            /\ validateDatabaseName(name) = ""
            /\ templateConflict(Top.statements, name)
            /\ stack' = SetTop(ReturnError(
                    [Top EXCEPT !.offset = afterComment(Top, line)],
                    directiveLocation(Top, line), TEMPLATE_DIRECTIVE_ERROR_FIRST))
    /\ UNCHANGED <<files, returned, phase, caches, collection, lint>>

\* @template, accepted: a template Statement is pushed.
TemplateAccepted ==
    /\ LineCommentHere
    /\ \E line \in {commentLine(Top)} : \E text \in {commentText(line)} :
        /\ ~INCLUDE_PREFIX(text)
        /\ TEMPLATE_PREFIX(text)
        /\ \E name \in {template(directive(text))} :
            /\ validateDatabaseName(name) = ""
            /\ ~templateConflict(Top.statements, name)
            /\ stack' = SetTop(
                    [Top EXCEPT !.offset = afterComment(Top, line),
                                !.statements = Append(@,
                                    TemplateStatement(directiveLocation(Top, line), name))])
    /\ UNCHANGED <<files, returned, phase, caches, collection, lint>>

\* Check for block comment start (/*)
\* A block comment start that leaves the offset on the "/"
afterBlockCommentStart_Stays(f) == f.offset

\* offset += 2
afterBlockCommentStart(f) == f.offset + 2

BlockCommentStart ==
    /\ Scanning
    /\ Between(Top)
    /\ ~IsSpace(Char(Top))
    /\ ~AtLineComment(Top)
    /\ AtBlockComment(Top)
    /\ stack' = SetTop([Top EXCEPT !.isBlockComment = TRUE,
                                   !.offset = afterBlockCommentStart(Top)])
    /\ UNCHANGED <<files, returned, phase, caches, collection, lint>>

----------------------------------------------------------------------------
(* The scan loop, inside a statement.  An iteration that starts a new      *)
(* statement falls through to the statement branch in the same iteration.  *)

StatementHere ==
    /\ Scanning
    /\ ~Top.isBlockComment
    /\ \/ Top.isStatement
       \/ /\ ~IsSpace(Char(Top))
          /\ ~AtLineComment(Top)
          /\ ~AtBlockComment(Top)

\* Start new statement
Started(f) ==
    IF f.isStatement THEN f
    ELSE [f EXCEPT !.currentStart = f.offset, !.isStatement = TRUE]

Slice(f) == Drop(Text(f), f.offset)

DollarQuoteHere(f) == Char(f) = "$" /\ DollarQuotedText(Slice(f)) # <<>>

\* if (quoteChar) { ... continue }
QuotedChar ==
    /\ StatementHere
    /\ Top.quoteChar # ""
    /\ stack' = SetTop(
            [Started(Top) EXCEPT
                !.currentSql = Append(@, Char(Top)),
                !.quoteChar = IF Char(Top) = Top.quoteChar THEN "" ELSE @,
                !.offset = @ + 1])
    /\ UNCHANGED <<files, returned, phase, caches, collection, lint>>

\* Check for dollar quote start: the whole quoted text is copied at once.
DollarQuote ==
    /\ StatementHere
    /\ Top.quoteChar = ""
    /\ DollarQuoteHere(Top)
    /\ stack' = SetTop(
            [Started(Top) EXCEPT
                !.currentSql = @ \o DollarQuotedText(Slice(Top)),
                !.offset = @ + Len(DollarQuotedText(Slice(Top)))])
    /\ UNCHANGED <<files, returned, phase, caches, collection, lint>>

\* Check for quote starts
QuoteStart ==
    /\ StatementHere
    /\ Top.quoteChar = ""
    /\ ~DollarQuoteHere(Top)
    /\ IsQuoteStart(Char(Top))
    /\ stack' = SetTop(
            [Started(Top) EXCEPT
                !.quoteChar = Char(Top),
                !.currentSql = Append(@, Char(Top)),
                !.offset = @ + 1])
    /\ UNCHANGED <<files, returned, phase, caches, collection, lint>>

\* Split on semicolons
Semicolon ==
    /\ StatementHere
    /\ Top.quoteChar = ""
    /\ ~DollarQuoteHere(Top)
    /\ ~IsQuoteStart(Char(Top))
    /\ Char(Top) = ";"
    /\ stack' = SetTop(
            [pushStatement([Started(Top) EXCEPT !.currentSql = Append(@, Char(Top))],
                           Top.offset)
                EXCEPT !.isStatement = FALSE, !.offset = @ + 1])
    /\ UNCHANGED <<files, returned, phase, caches, collection, lint>>

\* Regular character
RegularChar ==
    /\ StatementHere
    /\ Top.quoteChar = ""
    /\ ~DollarQuoteHere(Top)
    /\ ~IsQuoteStart(Char(Top))
    /\ Char(Top) # ";"
    /\ stack' = SetTop(
            [Started(Top) EXCEPT
                !.currentSql = Append(@, Char(Top)),
                !.offset = @ + 1])
    /\ UNCHANGED <<files, returned, phase, caches, collection, lint>>

\* The loop is left: Add final statement, return statements.
LoopExit ==
    /\ phase = "split"
    /\ stack # <<>>
    /\ Top.pc = "scan"
    /\ Top.offset >= Len(Text(Top))
    /\ stack' = SetTop(
            [(IF Trim(Top.currentSql) # <<>>
              THEN pushStatement(Top, Top.offset - 1)
              ELSE Top)
                EXCEPT !.pc = "return"])
    /\ UNCHANGED <<files, returned, phase, caches, collection, lint>>

----------------------------------------------------------------------------
(* Returning.                                                              *)

\* setIncludedAt that keeps an includedAt already set
setIncludedAt_KeepNearest(includeStatements, location) ==
    [i \in 1..Len(includeStatements) |->
        IF includeStatements[i].includedAt = NoLoc
        THEN [includeStatements[i] EXCEPT !.includedAt = location]
        ELSE includeStatements[i]]

\* for (let includeStatement of includeStatements) includeStatement.includedAt = location
setIncludedAt(includeStatements, location) ==
    [i \in 1..Len(includeStatements) |->
        [includeStatements[i] EXCEPT !.includedAt = location]]

\* The included statements put before the caller's
spliced_InFront(statements, includeStatements) == includeStatements \o statements

\* statements.push(...includeStatements)
spliced(statements, includeStatements) == statements \o includeStatements

\* The recursive call has returned: the caller takes its statements over and
\* goes on scanning behind the directive.
IncludeReturn ==
    /\ phase = "split"
    /\ Len(stack) >= 2
    /\ Top.pc = "return"
    /\ LET caller == stack[Len(stack) - 1] IN
        stack' = Append(
            SubSeq(stack, 1, Len(stack) - 2),
            [caller EXCEPT
                !.statements = spliced(@, setIncludedAt(Top.statements, caller.location)),
                !.pc = "scan"])
    /\ UNCHANGED <<files, returned, phase, caches, collection, lint>>

\* The top-level call has returned.
Finish ==
    /\ phase = "split"
    /\ Len(stack) = 1
    /\ Top.pc = "return"
    /\ returned' = Top.statements
    /\ phase' = "done"
    /\ stack' = <<>>
    /\ UNCHANGED <<files, caches, collection, lint>>

----------------------------------------------------------------------------
(* Offsets to positions, through the caches.                               *)

\* The Position of a conversion that throws: getPosition with no line starts
\* cached for the uri, getLastPositionInFile with no length cached or length 0.
Thrown == [line |-> -1, character |-> -1]

\* getPosition that counts the starts before the offset only
getPositionIn_Before(lineStarts, uri, offset) ==
    IF lineStarts[uri] = NoEntry THEN Thrown
    ELSE LET filtered == SelectSeq(lineStarts[uri], LAMBDA s : s < offset)
             line == Len(filtered)
             lineStart == IF line > 0 THEN filtered[line] ELSE 0
         IN [line |-> line, character |-> offset - lineStart]

getPositionIn(lineStarts, uri, offset) ==
    IF lineStarts[uri] = NoEntry THEN Thrown
    ELSE LET filtered == SelectSeq(lineStarts[uri], LAMBDA s : s <= offset)
             line == Len(filtered)
             lineStart == IF line > 0 THEN filtered[line] ELSE 0
         IN [line |-> line, character |-> offset - lineStart]

getPosition(uri, offset) == getPositionIn(LINE_STARTS_CACHE, uri, offset)

getLastPositionInFile(uri) ==
    LET length == FILE_LENGTHS_CACHE[uri] IN
    IF length = NoLength \/ length = 0 THEN Thrown
    ELSE getPosition(uri, length - 1)

\* vscode.Position.isBefore
isBefore(a, b) == a.line < b.line \/ (a.line = b.line /\ a.character < b.character)

\* new vscode.Range(start, end): if end is before start, the two are swapped.
Range(start, end) ==
    IF isBefore(end, start) THEN [start |-> end, end |-> start]
    ELSE [start |-> start, end |-> end]

\* A Range one of whose Positions could not be computed.
Throws(range) == range.start = Thrown \/ range.end = Thrown

\* The range that getLocationFromEndOffset computes with the caches as they are.
rangeNow(uri, startOffset, endOffset) ==
    Range(getPosition(uri, startOffset), getPosition(uri, endOffset))

\* The range of a Location of a Statement or of a directive.  It was computed
\* when the call of splitIntoStatements made the Location, from the line starts
\* that call had cached for the text of the unit.
range(location) ==
    LET own == [u \in Files |-> LineStarts(files[u].text, 0)] IN
    Range(getPositionIn(own, location.uri, location.startOffset),
          getPositionIn(own, location.uri, location.startOffset + location.length))

----------------------------------------------------------------------------
(* Diagnostics.                                                            *)

NoRelated == [uri |-> "", range |-> Range(Thrown, Thrown), message |-> <<>>]

DiagnosticRelatedInformation(uri, rng, message) ==
    [uri |-> uri, range |-> rng, message |-> message]

\* new vscode.Diagnostic(range, message, severity)
Diagnostic(rng, message, severity) ==
    [range |-> rng, message |-> message, severity |-> severity,
     relatedInformation |-> NoRelated, tags |-> {}]

\* collection.set(uri, [...existing, ...diagnostics]) on the collection given
pushDiagnostics(coll, uri, diagnostics) ==
    [coll EXCEPT ![uri] = @ \o diagnostics]

Chars_InThisStatement ==
    <<"I","n"," ","t","h","i","s"," ","s","t","a","t","e","m","e","n","t",":"," ">>

Chars_InIncludedFile ==
    <<"I","n"," ","i","n","c","l","u","d","e","d"," ","f","i","l","e",":"," ">>

Chars_Hint == <<";"," ","H","i","n","t",":"," ">>

Chars_Unreachable ==
    <<"u","n","r","e","a","c","h","a","b","l","e"," ","s","t","a","t","e","m","e","n","t","s">>

buildUnreachable(location, reason) ==
    LET unreachableOffset == location.startOffset + location.length
        unreachableRange == Range(getPosition(location.uri, unreachableOffset),
                                  getLastPositionInFile(location.uri))
    IN [Diagnostic(unreachableRange, Chars_Unreachable, "Hint") EXCEPT
            !.relatedInformation =
                DiagnosticRelatedInformation(location.uri, unreachableRange, reason.message),
            !.tags = {"Unnecessary"}]

\* A diagnostic whose construction threw: one of its own Positions, or one of
\* the Positions of its related information, could not be computed.
Unbuilt(d) == Throws(d.range) \/ (d.relatedInformation # NoRelated /\ Throws(d.relatedInformation.range))

\* The pushes of a handler, in the order of the code: each is a pair of a uri
\* and the diagnostics of one call of pushDiagnostics.  The handler throws where
\* a diagnostic of a push could not be built, and the pushes from there on are
\* not made.
RECURSIVE pushAll(_, _)
pushAll(coll, pushes) ==
    IF pushes = <<>> THEN coll
    ELSE IF \E k \in 1..Len(pushes[1][2]) : Unbuilt(pushes[1][2][k]) THEN coll
    ELSE pushAll(pushDiagnostics(coll, pushes[1][1], pushes[1][2]), Tail(pushes))

\* The handler threw in one of the pushes.
threw(pushes) ==
    \E i \in 1..Len(pushes) : \E k \in 1..Len(pushes[i][2]) : Unbuilt(pushes[i][2][k])

----------------------------------------------------------------------------
(* The Error Locator: StatementError.handleShouldContinue of errors.ts.    *)

Upper == {"A","B","C","D","E","F","G","H","I","J","K","L","M","N","O","P","Q",
          "R","S","T","U","V","W","X","Y","Z"}

LowerOf == [c \in Upper |->
    CASE c = "A" -> "a" [] c = "B" -> "b" [] c = "C" -> "c" [] c = "D" -> "d"
      [] c = "E" -> "e" [] c = "F" -> "f" [] c = "G" -> "g" [] c = "H" -> "h"
      [] c = "I" -> "i" [] c = "J" -> "j" [] c = "K" -> "k" [] c = "L" -> "l"
      [] c = "M" -> "m" [] c = "N" -> "n" [] c = "O" -> "o" [] c = "P" -> "p"
      [] c = "Q" -> "q" [] c = "R" -> "r" [] c = "S" -> "s" [] c = "T" -> "t"
      [] c = "U" -> "u" [] c = "V" -> "v" [] c = "W" -> "w" [] c = "X" -> "x"
      [] c = "Y" -> "y" [] c = "Z" -> "z"]

\* String.prototype.toLowerCase
toLowerCase(s) == [i \in 1..Len(s) |-> IF s[i] \in Upper THEN LowerOf[s[i]] ELSE s[i]]

\* \w
IsWord(c) == c \in Letter \cup Digit \cup {"_"}

\* The length of the longest run of characters of the class from index i on.
RECURSIVE RunOf(_, _)
RunOf(flags, i) ==
    IF i <= Len(flags) /\ flags[i] THEN 1 + RunOf(flags, i + 1) ELSE 0

Run(s, i, Class(_)) == RunOf([k \in 1..Len(s) |-> Class(s[k])], i)

NotSpace(c) == ~IsSpace(c)

NotQuote(c) == c # "\""

NotNewline(c) == c \notin {"\n", "\r"}

Chars_Operator ==
    <<"o","p","e","r","a","t","o","r"," ","d","o","e","s"," ","n","o","t"," ",
      "e","x","i","s","t",":"," ">>

Chars_Column == <<"c","o","l","u","m","n"," ">>

\* Group 1 of /operator does not exist: \w+\s+([^\s]+)/ matched at index p of
\* the message, <<>> if it does not match there.  The three runs are of classes
\* that exclude each other, so the greedy match is the only one.
operatorAt(m, p) ==
    IF ~StartsWith(Drop(m, p - 1), Chars_Operator) THEN <<>>
    ELSE LET w == p + Len(Chars_Operator)
             nw == Run(m, w, IsWord)
             ns == Run(m, w + nw, IsSpace)
             ng == Run(m, w + nw + ns, NotSpace)
         IN IF nw > 0 /\ ns > 0 /\ ng > 0
            THEN SubSeq(m, w + nw + ns, w + nw + ns + ng - 1)
            ELSE <<>>

\* Group 2 of /column "?((?:[^"]+))"?/ matched at index p, <<>> if it does not
\* match there.  After the optional quote the group takes every character up
\* to the next quote; without the quote the group would begin at the quote and
\* be empty, so an opening quote that is there is always taken.
columnAt(m, p) ==
    IF ~StartsWith(Drop(m, p - 1), Chars_Column) THEN <<>>
    ELSE LET q == p + Len(Chars_Column)
             g == IF q <= Len(m) /\ m[q] = "\"" THEN q + 1 ELSE q
             n == Run(m, g, NotQuote)
         IN IF n > 0 THEN SubSeq(m, g, g + n - 1) ELSE <<>>

\* Group 3 of /(?:.*)"([^"]+)"(?!.*")/ matched at index p, <<>> if it does not
\* match there.  .* stays on the line of p and gives back from its longest
\* match, so the opening quote is the last one of the line from p on that has
\* a quoted word and a closing quote behind it and no quote on the rest of the
\* line of the closing quote.
quotedAt(m, p) ==
    LET lineEnd == p + Run(m, p, NotNewline) - 1
        Closes(o) ==
            LET n == Run(m, o + 1, NotQuote)
                c == o + 1 + n
            IN /\ m[o] = "\""
               /\ n > 0
               /\ c <= Len(m) /\ m[c] = "\""
               /\ Run(m, c + 1, LAMBDA x : NotNewline(x) /\ NotQuote(x))
                    = Run(m, c + 1, NotNewline)
        opens == { o \in p..lineEnd : Closes(o) }
    IN IF opens = {} THEN <<>>
       ELSE LET o == CHOOSE o \in opens : \A o2 \in opens : o2 <= o
            IN SubSeq(m, o + 1, o + Run(m, o + 1, NotQuote))

\* a ?? b ?? c, <<>> for null
firstOf(a, b, c) == IF a # <<>> THEN a ELSE IF b # <<>> THEN b ELSE c

\* quotedMatch?.[1] ?? quotedMatch?.[2] ?? quotedMatch?.[3] ?? null at index p:
\* the alternatives are tried from left to right.
groupAt(m, p) == firstOf(operatorAt(m, p), columnAt(m, p), quotedAt(m, p))

\* message.match(...): the match at the first index that has one.  <<>> is null.
RECURSIVE quotedFrom(_, _)
quotedFrom(m, p) ==
    IF p > Len(m) + 1 THEN <<>>
    ELSE LET g == groupAt(m, p) IN
         IF g # <<>> THEN g ELSE quotedFrom(m, p + 1)

quoted(message) == quotedFrom(message, 1)

\* innerEnd with the class [a-z0-9_]
innerEnd_NoQuote(rest) == Run(rest, 1, IsWord)

\* rest.match(/[^a-z0-9_"]|$/i).index
innerEnd(rest) == Run(rest, 1, LAMBDA c : IsWord(c) \/ c = "\"")

Max(a, b) == IF a >= b THEN a ELSE b

Min(a, b) == IF a <= b THEN a ELSE b

\* String.prototype.substring(n) for n >= 0
substring(s, n) == Drop(s, Min(n, Len(s)))


\* The null of innerOffset, and the undefined of error.position.
Null == -1

NoPosition == 0

\* new DatabaseError: message, position (1-based, as parseInt reads it) and hint
DatabaseError(message, position, hint) ==
    [message |-> message, position |-> position, hint |-> hint]

\* quotedOffset as the smaller of the two indices
quotedOffset_Min(rest, q) == Min(IndexOf(rest, q), IndexOf(toLowerCase(rest), q))

quotedOffset(rest, q) == Max(IndexOf(rest, q), IndexOf(toLowerCase(rest), q))

\* let innerOffset = position ? parseInt(position) - 1 : null
innerOffsetOf(error) == IF error.position # NoPosition THEN error.position - 1 ELSE Null

\* sql.substring(innerOffset ?? 0)
restOf(sql, innerOffset) == substring(sql, IF innerOffset = Null THEN 0 ELSE innerOffset)

\* innerOffset after the offset of the quoted word in rest was found or not
movedBy(innerOffset, offsetInRest) ==
    IF offsetInRest > -1
    THEN (IF innerOffset # Null /\ innerOffset # 0
          THEN innerOffset + offsetInRest
          ELSE offsetInRest)
    ELSE innerOffset

\* innerOffset and length after the block of the localized branch, for the
\* quoted word q (<<>> is null)
innerSpanOf(q, innerOffset, rest) ==
    [innerOffset |-> IF q # <<>> THEN movedBy(innerOffset, quotedOffset(rest, q))
                     ELSE innerOffset,
     length |-> Max(1, IF q # <<>> THEN Len(q) ELSE innerEnd(rest))]

\* The offset in sql and the length of the span that the handler marks.
innerSpan(sql, error) ==
    innerSpanOf(quoted(error.message), innerOffsetOf(error),
                restOf(sql, innerOffsetOf(error)))

\* getLocationFromLength(uri, startOffset + (innerOffset ?? 0), length).range
innerRangeOf(location, span) ==
    rangeNow(location.uri,
             location.startOffset + (IF span.innerOffset = Null THEN 0 ELSE span.innerOffset),
             location.startOffset + (IF span.innerOffset = Null THEN 0 ELSE span.innerOffset)
                + span.length)

\* The condition of the localized branch as always true
localized_Always(error) == TRUE

\* if (quoted || (innerOffset !== null && !isNaN(innerOffset)))
localized(error) == quoted(error.message) # <<>> \/ error.position # NoPosition

\* The statement's diagnostic with the message alone set
wholeStatement_Warning(statementDiagnostic, messageWithHint) ==
    [statementDiagnostic EXCEPT !.message = messageWithHint]

wholeStatement(statementDiagnostic, messageWithHint) ==
    [statementDiagnostic EXCEPT !.severity = "Error", !.message = messageWithHint]

\* hint ? `${message}; Hint: ${hint}` : message
messageWithHintOf(error) ==
    IF error.hint # <<>> THEN error.message \o Chars_Hint \o error.hint ELSE error.message

\* includedDiagnostic and includeUnreachable, pushed together
includedPushes(statement, related) ==
    << <<statement.includedAt.uri,
         <<related, buildUnreachable(statement.includedAt, related)>>>> >>

\* The pushes of the localized branch.
localizedPushes(statement, error, warnWholeStatement, statementDiagnostic, innerRange) ==
    <<  <<statement.location.uri,
          <<buildUnreachable(statement.location, statementDiagnostic)>>>>,
        <<statement.location.uri,
          <<Diagnostic(innerRange, messageWithHintOf(error), "Error")>>>>  >>
    \o (IF warnWholeStatement
        THEN << <<statement.location.uri, <<statementDiagnostic>>>> >> ELSE <<>>)
    \o (IF statement.includedAt # NoLoc
        THEN includedPushes(statement,
                [Diagnostic(range(statement.includedAt),
                            Chars_InIncludedFile \o error.message \o <<" ">>, "Error")
                    EXCEPT !.relatedInformation =
                        DiagnosticRelatedInformation(statement.location.uri, innerRange,
                                                     error.message)])
        ELSE <<>>)

\* The pushes of the whole-statement branch.
wholeStatementPushes(statement, error, statementDiagnostic) ==
    <<  <<statement.location.uri,
          <<buildUnreachable(statement.location, statementDiagnostic)>>>>,
        <<statement.location.uri,
          <<wholeStatement(statementDiagnostic, messageWithHintOf(error))>>>>  >>
    \o (IF statement.includedAt # NoLoc
        THEN << <<statement.includedAt.uri,
                  <<[Diagnostic(range(statement.includedAt),
                                Chars_InIncludedFile \o error.message \o <<" ">>, "Error")
                        EXCEPT !.relatedInformation =
                            DiagnosticRelatedInformation(statement.location.uri,
                                range(statement.location), error.message)]>>>> >>
        ELSE <<>>)

\* new vscode.Diagnostic(range, `In this statement: ${message}}`, Warning)
statementDiagnosticOf(statement, error) ==
    Diagnostic(range(statement.location),
               Chars_InThisStatement \o error.message \o <<"}">>, "Warning")

\* The pushes of StatementError.handleShouldContinue, which returns false.
handleShouldContinue(statement, error, warnWholeStatement) ==
    IF localized(error)
    THEN localizedPushes(statement, error, warnWholeStatement,
                         statementDiagnosticOf(statement, error),
                         innerRangeOf(statement.location, innerSpan(statement.sql, error)))
    ELSE wholeStatementPushes(statement, error, statementDiagnosticOf(statement, error))

Message_ColumnBar ==
    <<"c","o","l","u","m","n"," ","\"","b","a","r","\""," ","d","o","e","s"," ","n","o","t"," ","e","x","i","s","t">>

Message_RelationFoo ==
    <<"r","e","l","a","t","i","o","n"," ","\"","f","o","o","\""," ","d","o","e","s"," ","n","o","t"," ","e","x","i","s","t">>

Message_Syntax ==
    <<"s","y","n","t","a","x"," ","e","r","r","o","r"," ","a","t"," ","e","n","d"," ","o","f"," ","i","n","p","u","t">>

Message_Operator ==
    <<"o","p","e","r","a","t","o","r"," ","d","o","e","s"," ","n","o","t"," ","e","x","i","s","t",":"," ","i","n","t","e","g","e","r"," ","="," ","t","e","x","t">>

----------------------------------------------------------------------------
(* The inputs: the root document "R" and the files "A" and "B" beside it.  *)
(* A root text is a concatenation of at most MaxPieces quote pieces, of at *)
(* most MaxPieces comment pieces, or of at most MaxLines directive lines.  *)
(* No file is named "M".                                                   *)

Concatenations(parts, n) ==
    UNION { { Flatten(q) : q \in [1..k -> parts] } : k \in 0..n }

QuotePieces ==
    { <<"a">>, <<";">>, <<"'">>, <<"\"">>, <<Backtick>>, <<"$", "$">>,
      <<"$", "t", "$">> }

CommentPieces ==
    { <<"a">>, <<";">>, <<"'">>, <<"\n">>, <<"-", "-">>, <<"/", "*">>,
      <<"*", "/">> }

IncA == <<"-", "-">> \o AtInclude \o <<":", "A", "\n">>

IncB == <<"-", "-">> \o AtInclude \o <<":", "B", "\n">>

IncM == <<"-", "-", " ">> \o AtInclude \o <<" ", "M", "\n">>

TplFoo == <<"-", "-", " ">> \o AtTemplate \o <<" ", "f", "o", "o", "\n">>

TplQFoo == <<"-", "-", " ">> \o AtTemplate \o <<" ", "\"", "f", "o", "o", "\"", "\n">>

TplBar == <<"-", "-">> \o AtTemplate \o <<":", "b", "a", "r", "\n">>

TplBad == <<"-", "-", " ">> \o AtTemplate \o <<" ", "1", "x", "\n">>

RootLines == { IncA, IncB, TplFoo, TplQFoo, TplBar, TplBad, <<"a", ";", "\n">> }

File(text) == [kind |-> "file", text |-> text]

Directory == [kind |-> "dir", text |-> <<>>]

Missing == [kind |-> "missing", text |-> <<>>]

RootTexts ==
    Concatenations(QuotePieces, MaxPieces)
        \cup Concatenations(CommentPieces, MaxPieces)
        \cup Concatenations(RootLines, MaxLines)

AFiles ==
    { File(IncB), File(IncA), File(TplBar), File(TplFoo), File(<<"c", ";">>),
      File(IncB \o <<"c", ";">>), File(TplBar \o <<"c", ";">>),
      File(IncM \o <<"c", ";">>), File(<<"c", ";", "\n">> \o IncM),
      Directory, Missing }

BFiles == { File(<<"b", ";">>), File(TplBar), File(IncM \o <<"b", ";">>) }

\* text holds an @include directive line that names the file
Uses(text, name) == IndexOf(text, AtInclude \o <<":", name>>) >= 0

\* No diagnostic is published yet.
NoDiagnostics == [u \in Files |-> <<>>]

\* lint before the split has returned
Idle == [pc |-> "split"]

\* lintDocument has cleared the caches and the document's diagnostics, and the
\* top-level call of splitIntoStatements has begun: it has cached the line
\* starts of the document.
SplitBegun ==
    /\ stack = <<NewFrame("R")>>
    /\ returned = <<>>
    /\ phase = "split"
    /\ LINE_STARTS_CACHE =
            cacheLineStartsOn(clearPositionsCaches.lineStarts,
                              clearPositionsCaches.fileLengths, "R", files["R"].text).lineStarts
    /\ FILE_LENGTHS_CACHE =
            cacheLineStartsOn(clearPositionsCaches.lineStarts,
                              clearPositionsCaches.fileLengths, "R", files["R"].text).fileLengths
    /\ collection = NoDiagnostics
    /\ lint = Idle

\* A file no directive can reach is the same file in every initial state.
Init ==
    /\ \E r \in RootTexts :
        \E a \in (IF Uses(r, "A") THEN AFiles ELSE { Missing }) :
            \E b \in (IF Uses(r, "B") \/ Uses(a.text, "B") THEN BFiles ELSE { Missing }) :
                files = [n \in {"R", "A", "B"} |->
                            IF n = "R" THEN File(r) ELSE IF n = "A" THEN a ELSE b]
    /\ SplitBegun

Next ==
    \/ BlockCommentStep
    \/ SkipWhitespace
    \/ PlainLineComment
    \/ IncludeCall
    \/ IncludeError
    \/ TemplateInvalid
    \/ TemplateRejected
    \/ TemplateAccepted
    \/ BlockCommentStart
    \/ QuotedChar
    \/ DollarQuote
    \/ QuoteStart
    \/ Semicolon
    \/ RegularChar
    \/ LoopExit
    \/ IncludeReturn
    \/ Finish

Spec == Init /\ [][Next]_vars

\* A call that can take a step takes it: the event loop runs every resolved
\* promise's continuation.
FairSpec == Spec /\ WF_vars(Next)

----------------------------------------------------------------------------
(* The Error Locator applied to the statements of a split.  The root text  *)
(* is a concatenation of at most MaxLintLines lines; the backend's error   *)
(* is one of a few of PostgreSQL's messages, with or without a position    *)
(* and a hint.                                                             *)

StmtBar == <<"B", "a", "r", " ", "b", "a", "r", ";", "\n">>

StmtX == <<"x", ";", "\n">>

Mixed ==
    <<"-", "-", "\n", "/", "*", "*", "/", "'", "a", "'", "$", "$", ";", "$", "$", ";", "\n">>

LintLines == { StmtBar, StmtX, Mixed, IncA, TplFoo, TplBar, TplBad }

LintRootTexts == Concatenations(LintLines, MaxLintLines)

ALintFiles == { File(<<"b", "a", "r", ";">>), File(TplBar), Missing }

LintInit ==
    /\ \E r \in LintRootTexts :
        \E a \in (IF Uses(r, "A") THEN ALintFiles ELSE { Missing }) :
            files = [n \in Files |->
                        IF n = "R" THEN File(r) ELSE IF n = "A" THEN a ELSE Missing]
    /\ SplitBegun

Messages == { Message_ColumnBar, Message_RelationFoo, Message_Syntax, Message_Operator }

Hints == { <<>>, <<"h">> }

\* PostgreSQL reports a position in the query it was sent, or one behind its end.
Errors(sql) ==
    { DatabaseError(m, p, h) :
        m \in Messages, p \in { p \in {NoPosition, 1, 5} : p <= Len(sql) + 1 }, h \in Hints }

\* The query of a statement of the split was rejected, and the StatementError
\* is handed to handleErrorShouldContinue, which calls its handleShouldContinue.
HandleStatementError ==
    /\ phase = "done"
    /\ \E i \in 1..Len(returned) :
        /\ returned[i].sql # <<>>
        /\ \E error \in Errors(returned[i].sql) : \E warnWholeStatement \in BOOLEAN :
            \E pushes \in { handleShouldContinue(returned[i], error, warnWholeStatement) } :
                /\ collection' = pushAll(collection, pushes)
                /\ lint' = [pc |-> "handled", statement |-> returned[i], error |-> error,
                            warnWholeStatement |-> warnWholeStatement,
                            threw |-> threw(pushes), shouldContinue |-> FALSE]
    /\ phase' = "handled"
    /\ UNCHANGED <<files, stack, returned, caches>>

LocatorNext == Next \/ HandleStatementError

LocatorSpec == LintInit /\ [][LocatorNext]_vars

----------------------------------------------------------------------------
(* lintDocument of lintDocument.ts, from the return of splitIntoStatements *)
(* on.  lint.pc is the await the cycle is suspended at: "setup" at the     *)
(* connection of setupClient and its CREATE DATABASE, "connect" at the     *)
(* connection to the temporary database, "query" at the query of statement *)
(* lint.i, "cleanup" at cleanupDatabase; "loop" is the head of the loop    *)
(* over the statements, "returned" the end of the cycle.  lint.sent and    *)
(* lint.flagged record the statements whose sql was sent and the           *)
(* statements for which Error diagnostics were pushed, lint.terminated the *)
(* databases terminateBackend was called for.  The configuration has       *)
(* usePlPgsqlCheck off.                                                    *)

Cycle(pc, queryStats) ==
    [pc |-> pc, i |-> 1, queryStats |-> queryStats, created |-> FALSE,
     dropped |-> FALSE, cleanups |-> 0, sent |-> <<>>, flagged |-> <<>>,
     threw |-> FALSE, overlapped |-> FALSE,
     autoTerminateTemplateConnections |-> FALSE, terminated |-> <<>>]

\* statements[0].template
lintTemplate == returned[1].template

Chars_UsingTemplate ==
    <<"u","s","i","n","g"," ","t","e","m","p","l","a","t","e",":"," ">>

\* buildUnreachable of lintDocument.ts without the tag
lint_buildUnreachable_NoTag(location, reason) ==
    [buildUnreachable(location, reason) EXCEPT !.tags = {}]

\* buildUnreachable of lintDocument.ts, the same as that of errors.ts
lint_buildUnreachable(location, reason) == buildUnreachable(location, reason)

\* splitIntoStatements has returned: no statements, return; else the diagnostics
\* of the statements' units are cleared and setupClient connects.
Prepare ==
    /\ phase = "done"
    /\ lint.pc = "split"
    /\ \E queryStats \in BOOLEAN : \E autoTerminate \in BOOLEAN :
        IF returned = <<>>
        THEN /\ lint' = [Cycle("returned", queryStats)
                            EXCEPT !.autoTerminateTemplateConnections = autoTerminate]
             /\ UNCHANGED collection
        ELSE /\ lint' = [Cycle("setup", queryStats)
                            EXCEPT !.autoTerminateTemplateConnections = autoTerminate]
             /\ collection' =
                    [u \in Files |->
                        IF \E k \in 1..Len(returned) : returned[k].location.uri = u
                        THEN <<>> ELSE collection[u]]
    /\ UNCHANGED <<files, stack, returned, phase, caches>>

\* The template's diagnostic, and its copy at the include directive.
templatePushes ==
    LET message == Chars_UsingTemplate \o lintTemplate
        statement == returned[1]
        templateDiagnostic ==
            Diagnostic(range(statement.location), message, "Information")
    IN IF lintTemplate = <<>> THEN <<>>
       ELSE << <<statement.location.uri, <<templateDiagnostic>>>> >>
            \o (IF statement.includedAt # NoLoc
                THEN << <<statement.includedAt.uri,
                          <<[Diagnostic(range(statement.includedAt), message, "Information")
                                EXCEPT !.relatedInformation =
                                    DiagnosticRelatedInformation(
                                        statement.location.uri,
                                        range(statement.location), message)]>>>> >>
                ELSE <<>>)

\* The guards of terminateBackend without the setting
terminates_AnyTemplate(name, autoTerminateTemplateConnections) ==
    name # <<>>

\* if (template) { if (config.autoTerminateTemplateConnections) { ...
terminates(name, autoTerminateTemplateConnections) ==
    name # <<>> /\ autoTerminateTemplateConnections

\* The databases terminateBackend is called for once setupClient is connected.
terminated ==
    IF terminates(lintTemplate, lint.autoTerminateTemplateConnections)
    THEN <<lintTemplate>> ELSE <<>>

\* setupClient connected and CREATE DATABASE succeeded.
CreateDatabase ==
    /\ lint.pc = "setup"
    /\ lint' = [lint EXCEPT !.pc = "connect", !.created = TRUE,
                            !.terminated = terminated]
    /\ collection' = pushAll(collection, templatePushes)
    /\ UNCHANGED <<files, stack, returned, phase, caches>>

\* setupClient.connect or CREATE DATABASE threw: with a template the error is
\* put on the first statement, without one it is shown; the cycle returns.
CreateFails ==
    /\ lint.pc = "setup"
    /\ \E message \in Messages : \E connected \in BOOLEAN :
        \E called \in { IF connected THEN terminated ELSE <<>> } :
            IF lintTemplate # <<>>
            THEN /\ collection' = pushDiagnostics(collection, returned[1].location.uri,
                        <<Diagnostic(range(returned[1].location), message, "Error")>>)
                 /\ lint' = [lint EXCEPT !.pc = "returned", !.flagged = Append(@, 1),
                                         !.terminated = called]
            ELSE /\ lint' = [lint EXCEPT !.pc = "returned", !.terminated = called]
                 /\ UNCHANGED collection
    /\ UNCHANGED <<files, stack, returned, phase, caches>>

\* client.connect and SELECT current_database() succeeded.
ConnectTemp ==
    /\ lint.pc = "connect"
    /\ lint' = [lint EXCEPT !.pc = "loop"]
    /\ UNCHANGED <<files, stack, returned, phase, caches, collection>>

\* The catch of the connection to the temporary database with the return alone
connectFailed_Return == "returned"

\* The catch of the connection to the temporary database: client.end(),
\* showMessage, and cleanupDatabase before the return.
connectFailed == "cleanup"

\* client.connect threw, or the database is not the expected one.
ConnectFails ==
    /\ lint.pc = "connect"
    /\ lint' = [lint EXCEPT !.pc = connectFailed]
    /\ UNCHANGED <<files, stack, returned, phase, caches, collection>>

\* Group 1 of /column ([^\s]+)/ at index p, <<>> if it does not match there.
oldColumnAt(m, p) ==
    IF ~StartsWith(Drop(m, p - 1), Chars_Column) THEN <<>>
    ELSE LET g == p + Len(Chars_Column)
             n == Run(m, g, NotSpace)
         IN IF n > 0 THEN SubSeq(m, g, g + n - 1) ELSE <<>>

\* Group 2 of /\"([^"]+)\"/ at index p, <<>> if it does not match there.
oldQuotedAt(m, p) ==
    LET n == Run(m, p + 1, NotQuote)
        c == p + 1 + n
    IN IF p <= Len(m) /\ m[p] = "\"" /\ n > 0 /\ c <= Len(m) /\ m[c] = "\""
       THEN SubSeq(m, p + 1, p + n)
       ELSE <<>>

\* message.match(/column ([^\s]+)|\"([^"]+)\"/): quotedMatch?.[1] ?? quotedMatch?.[2]
\* of the match at the first index that has one.  <<>> is null.
RECURSIVE oldQuotedFrom(_, _)
oldQuotedFrom(m, p) ==
    IF p > Len(m) THEN <<>>
    ELSE IF oldColumnAt(m, p) # <<>> THEN oldColumnAt(m, p)
    ELSE IF oldQuotedAt(m, p) # <<>> THEN oldQuotedAt(m, p)
    ELSE oldQuotedFrom(m, p + 1)

\* rest.match(/\b|\s|\r|\n$/): the index of the first word boundary or
\* whitespace character of rest, -1 if there is none (the match is null).
oldInnerEnd(rest) ==
    LET word(k) == k >= 1 /\ k <= Len(rest) /\ IsWord(rest[k])
        hits == { k \in 0..Len(rest) :
                    \/ word(k) # word(k + 1)
                    \/ (k < Len(rest) /\ IsSpace(rest[k + 1])) }
    IN IF hits = {} THEN -1 ELSE CHOOSE k \in hits : \A j \in hits : k <= j

\* The pushes of the catch of a failed query of lintDocument.
catchQuery(statement, err) ==
    LET location == statement.location
        uri == location.uri
        sql == statement.sql
        message == IF err.hint # <<>>
                   THEN err.message \o <<" ","H","i","n","t",":"," ">> \o err.hint \o <<" ">>
                   ELSE err.message
        innerOffset == IF err.position # NoPosition THEN err.position - 1 ELSE Null
        includedAt == statement.includedAt
        includedDiagnostic ==
            [Diagnostic(range(includedAt), Chars_InIncludedFile \o message \o <<" ">>, "Error")
                EXCEPT !.relatedInformation =
                    DiagnosticRelatedInformation(uri, range(location), message)]
        statementDiagnostic ==
            Diagnostic(range(location), Chars_InThisStatement \o message \o <<" ">>, "Warning")
        sourceUnreachable == lint_buildUnreachable(location, statementDiagnostic)
        q == oldQuotedFrom(message, 1)
        rest == substring(sql, innerOffset)
        length == IF q # <<>> THEN IndexOf(rest, q) + Len(q)
                  ELSE IF oldInnerEnd(rest) # -1 THEN oldInnerEnd(rest)
                  ELSE Len(sql) - innerOffset
        innerRange == rangeNow(uri, location.startOffset + innerOffset,
                               location.startOffset + innerOffset + length)
        innerDiagnostic == Diagnostic(innerRange, message, "Error")
    IN IF innerOffset # Null
       THEN <<  <<uri, <<sourceUnreachable>>>>,
                <<uri, <<statementDiagnostic, innerDiagnostic>>>>  >>
            \o (IF includedAt # NoLoc
                THEN LET linked ==
                            [includedDiagnostic EXCEPT !.relatedInformation =
                                DiagnosticRelatedInformation(uri, innerRange, message)]
                     IN << <<includedAt.uri,
                             <<linked, lint_buildUnreachable(includedAt, linked)>>>> >>
                ELSE <<>>)
       ELSE <<  <<uri, <<sourceUnreachable>>>>,
                <<uri, <<[statementDiagnostic EXCEPT !.severity = "Error",
                                                     !.message = message]>>>>  >>
            \o (IF includedAt # NoLoc
                THEN << <<includedAt.uri, <<includedDiagnostic>>>> >>
                ELSE <<>>)

\* templateDiagnostic.severity = Warning: the collection holds the object.
demoteTemplate(coll) ==
    IF lintTemplate = <<>> THEN coll
    ELSE LET uri == returned[1].location.uri
             templateDiagnostic ==
                Diagnostic(range(returned[1].location),
                           Chars_UsingTemplate \o lintTemplate, "Information")
         IN [coll EXCEPT ![uri] =
                [k \in 1..Len(@) |->
                    IF @[k] = templateDiagnostic
                    THEN [@[k] EXCEPT !.severity = "Warning"] ELSE @[k]]]

\* Where the cycle goes on after an error of statement i, with the loop left
\* by continue instead of return
afterError_Continue(i) == [pc |-> "loop", i |-> i + 1]

\* Where the cycle goes on after an error of statement i: the return runs the
\* finally block.
afterError(i) == [pc |-> "cleanup", i |-> i]

AtLoop == lint.pc = "loop" /\ lint.i <= Len(returned)

\* The test of the template record as always true
templateAllowed_Always(i) == TRUE

\* if (i === 0 || (template && quotedEqual(template, statement.template)))
templateAllowed(i) ==
    i = 1 \/ (lintTemplate # <<>> /\ quotedEqual(lintTemplate, returned[i].template))

\* statement.error, after the template record of the wrong place was given one
errorOf(i) ==
    IF returned[i].template # <<>> /\ ~templateAllowed(i)
    THEN TEMPLATE_DIRECTIVE_ERROR_FIRST
    ELSE returned[i].error

\* continue: the template record in its place, or a record without sql
SkipStatement ==
    /\ AtLoop
    /\ \/ returned[lint.i].template # <<>> /\ templateAllowed(lint.i)
       \/ errorOf(lint.i) = "" /\ returned[lint.i].sql = <<>>
    /\ lint' = [lint EXCEPT !.i = @ + 1]
    /\ UNCHANGED <<files, stack, returned, phase, caches, collection>>

\* A record with an error, its own or the one the loop has just assigned to a
\* template record (statement.error = TEMPLATE_DIRECTIVE_ERROR_FIRST): its
\* diagnostics are pushed and the cycle returns.
DirectiveError ==
    /\ AtLoop
    /\ errorOf(lint.i) # ""
    /\ LET statement == returned[lint.i]
           includedAt == statement.includedAt
           includedDiagnostic ==
                [Diagnostic(range(includedAt), <<"In included file: ", errorOf(lint.i), " ">>,
                            "Error")
                    EXCEPT !.relatedInformation =
                        DiagnosticRelatedInformation(statement.location.uri,
                            range(statement.location), <<errorOf(lint.i)>>)]
           diagnostic == Diagnostic(range(statement.location), <<errorOf(lint.i)>>, "Error")
       IN collection' = pushAll(demoteTemplate(collection),
                (IF includedAt # NoLoc
                 THEN << <<includedAt.uri, <<includedDiagnostic>>>> >> ELSE <<>>)
                \o << <<statement.location.uri, <<diagnostic>>>> >>)
    /\ returned' = [returned EXCEPT ![lint.i].error = errorOf(lint.i)]
    /\ lint' = [lint EXCEPT !.pc = afterError(lint.i).pc, !.i = afterError(lint.i).i,
                            !.flagged = Append(@, lint.i)]
    /\ UNCHANGED <<files, stack, phase, caches>>

\* await client.query(sql)
SendQuery ==
    /\ AtLoop
    /\ errorOf(lint.i) = ""
    /\ returned[lint.i].template = <<>>
    /\ returned[lint.i].sql # <<>>
    /\ lint' = [lint EXCEPT !.pc = "query", !.sent = Append(@, lint.i)]
    /\ UNCHANGED <<files, stack, returned, phase, caches, collection>>

\* The loop has run through the statements: the finally block.
LoopDone ==
    /\ lint.pc = "loop"
    /\ lint.i > Len(returned)
    /\ lint' = [lint EXCEPT !.pc = "cleanup"]
    /\ UNCHANGED <<files, stack, returned, phase, caches, collection>>

Chars_Stats == <<"S","E","L","E","C","T"," ","1"," ","r","o","w"," ","1"," ","m","s">>

\* The query succeeded; with queryStats its statistics are pushed as a Hint.
QuerySucceeds ==
    /\ lint.pc = "query"
    /\ collection' =
            IF lint.queryStats
            THEN pushDiagnostics(collection, returned[lint.i].location.uri,
                    <<Diagnostic(range(returned[lint.i].location), Chars_Stats, "Hint")>>)
            ELSE collection
    /\ lint' = [lint EXCEPT !.pc = "loop", !.i = @ + 1]
    /\ UNCHANGED <<files, stack, returned, phase, caches>>

\* The query threw: the catch pushes its diagnostics and the cycle returns; if
\* the catch itself throws, the finally block runs as well.
QueryFails ==
    /\ lint.pc = "query"
    /\ \E err \in Errors(returned[lint.i].sql) :
        \E pushes \in { catchQuery(returned[lint.i], err) } :
            /\ collection' = pushAll(demoteTemplate(collection), pushes)
            /\ lint' = [lint EXCEPT !.pc = afterError(lint.i).pc, !.i = afterError(lint.i).i,
                                    !.flagged = Append(@, lint.i),
                                    !.threw = threw(pushes)]
    /\ UNCHANGED <<files, stack, returned, phase, caches>>

\* client.end() and cleanupDatabase: when cleanupClient connects, DROP DATABASE
\* IF EXISTS is sent; when it does not, the error is shown.
CleanupDatabase ==
    /\ lint.pc = "cleanup"
    /\ \E connected \in BOOLEAN :
        lint' = [lint EXCEPT !.pc = "returned", !.cleanups = @ + 1,
                             !.dropped = @ \/ connected]
    /\ UNCHANGED <<files, stack, returned, phase, caches, collection>>

LintNext ==
    \/ Next
    \/ Prepare
    \/ CreateDatabase
    \/ CreateFails
    \/ ConnectTemp
    \/ ConnectFails
    \/ SkipStatement
    \/ DirectiveError
    \/ SendQuery
    \/ LoopDone
    \/ QuerySucceeds
    \/ QueryFails
    \/ CleanupDatabase

LintSpec == LintInit /\ [][LintNext]_vars

----------------------------------------------------------------------------
(* Two cycles on the same document.  While the cycle is suspended at an    *)
(* await of its database steps, the document is saved again and a second   *)
(* call of lintDocument starts: it clears the caches and the document's    *)
(* diagnostics, reads the text the document has by then, and its call of   *)
(* splitIntoStatements caches the line starts of that text.  The steps of  *)
(* the second cycle behind that are left out.                              *)

\* The text of the document at the second save: unchanged, or with a line put
\* before it.
LaterTexts == { files["R"].text, <<"\n">> \o files["R"].text }

OtherCycleStarts ==
    /\ lint.pc \in {"setup", "connect", "query", "cleanup"}
    /\ ~lint.overlapped
    /\ \E sqlText \in LaterTexts :
        \E cleared \in { clearPositionsCaches } :
            \E cached \in { cacheLineStartsOn(cleared.lineStarts, cleared.fileLengths,
                                              "R", sqlText) } :
                /\ LINE_STARTS_CACHE' = cached.lineStarts
                /\ FILE_LENGTHS_CACHE' = cached.fileLengths
    /\ collection' = [collection EXCEPT !["R"] = <<>>]
    /\ lint' = [lint EXCEPT !.overlapped = TRUE]
    /\ UNCHANGED <<files, stack, returned, phase>>

OverlapNext == LintNext \/ OtherCycleStarts

OverlapSpec == LintInit /\ [][OverlapNext]_vars

----------------------------------------------------------------------------
(* Directive lines among comments: the root text is a concatenation of at  *)
(* most MaxMixed pieces (a letter, a ";", the comment marks, an @include   *)
(* line), or one of the root texts above.                                  *)

MixedPieces ==
    { <<"a">>, <<";">>, <<"-", "-">>, <<"/", "*">>, <<"*", "/">>, IncA }

MixedTexts == Concatenations(MixedPieces, MaxMixed) \cup LintRootTexts

DirectiveInit ==
    /\ \E r \in MixedTexts :
        \E a \in (IF Uses(r, "A") THEN ALintFiles ELSE { Missing }) :
            files = [n \in Files |->
                        IF n = "R" THEN File(r) ELSE IF n = "A" THEN a ELSE Missing]
    /\ SplitBegun

DirectiveSpec == DirectiveInit /\ [][Next]_vars

----------------------------------------------------------------------------
(* The split of a document that opens with a @template directive.  The     *)
(* name is a concatenation of at most MaxName pieces: a double quote, a    *)
(* letter, a digit, a blank, a null byte.  The directive is followed by    *)
(* one statement.                                                          *)

MaxName == 4

NamePieces == { <<"\"">>, <<"a">>, <<"1">>, <<" ">>, <<Nul>> }

TemplateLine(name) ==
    <<"-", "-">> \o AtTemplate \o <<":">> \o name \o <<"\n", "a", ";">>

NameTexts ==
    { TemplateLine(name) : name \in Concatenations(NamePieces, MaxName) }
        \cup LintRootTexts

NameInit ==
    /\ \E r \in NameTexts :
        \E a \in (IF Uses(r, "A") THEN ALintFiles ELSE { Missing }) :
            files = [n \in Files |->
                        IF n = "R" THEN File(r) ELSE IF n = "A" THEN a ELSE Missing]
    /\ SplitBegun

NameSpec == NameInit /\ [][Next]_vars

----------------------------------------------------------------------------
(* The match of the handler's regular expression on a backend message.     *)
(* The message is a concatenation of at most MaxTokens pieces: a word, a   *)
(* column construct, a quoted word, an operator construct, a line break.   *)

MaxTokens == 4

Piece_Word == <<"x", " ">>

Piece_Column == Chars_Column \o <<"\"", "a", "\"", " ">>

Piece_Quoted == <<"\"", "b", "\"", " ">>

Piece_Operator == Chars_Operator \o <<"t", " ", "y", " ">>

MessagePieces ==
    { Piece_Word, Piece_Column, Piece_Quoted, Piece_Operator, <<"\n">> }

MatchInit ==
    /\ files = [n \in Files |-> Missing]
    /\ stack = <<>>
    /\ returned = <<>>
    /\ phase = "match"
    /\ LINE_STARTS_CACHE = clearPositionsCaches.lineStarts
    /\ FILE_LENGTHS_CACHE = clearPositionsCaches.fileLengths
    /\ collection = NoDiagnostics
    /\ \E message \in Concatenations(MessagePieces, MaxTokens) :
            lint = [pc |-> "match", message |-> message, quoted |-> <<>>]

\* const quoted = quotedMatch?.[1] ?? quotedMatch?.[2] ?? quotedMatch?.[3] ?? null
Match ==
    /\ phase = "match"
    /\ lint.pc = "match"
    /\ lint' = [lint EXCEPT !.pc = "matched", !.quoted = quoted(lint.message)]
    /\ UNCHANGED <<files, stack, returned, phase, caches, collection>>

MatchSpec == MatchInit /\ [][Match]_vars

----------------------------------------------------------------------------
(* The span that the handler marks in a failing statement.  The sql of the *)
(* statement is a concatenation of one to MaxWords pieces, the statement   *)
(* starts at the start of its unit or behind two characters, the message   *)
(* names a word in lower case, a word with a capital, a word that is not   *)
(* in the pieces, or none, and the position is missing, in the sql, or one *)
(* behind its end.                                                         *)

MaxWords == 3

SqlPieces ==
    { <<"b", "a", "r">>, <<"B", "a", "r">>, <<"x">>, <<" ">>, <<"\"">>, <<";">> }

Message_ColumnUpper ==
    <<"c","o","l","u","m","n"," ","\"","B","a","r","\""," ","d","o","e","s"," ","n","o","t"," ","e","x","i","s","t">>

SpanMessages ==
    { Message_ColumnBar, Message_ColumnUpper, Message_RelationFoo, Message_Syntax }

NoSpan == [uri |-> "", startOffset |-> -1, length |-> -1]

SpanInit ==
    /\ files = [n \in Files |-> Missing]
    /\ stack = <<>>
    /\ returned = <<>>
    /\ phase = "locate"
    /\ LINE_STARTS_CACHE = clearPositionsCaches.lineStarts
    /\ FILE_LENGTHS_CACHE = clearPositionsCaches.fileLengths
    /\ collection = NoDiagnostics
    /\ \E sql \in Concatenations(SqlPieces, MaxWords) \ { <<>> } :
        \E message \in SpanMessages : \E position \in {NoPosition} \cup 1..(Len(sql) + 1) :
        \E startOffset \in {0, 2} :
            lint = [pc |-> "locate", sql |-> sql, startOffset |-> startOffset,
                    error |-> DatabaseError(message, position, <<>>),
                    innerLocation |-> NoSpan]

\* const innerLocation = getLocationFromLength(uri, startOffset + (innerOffset ?? 0), length)
innerLocationOf(uri, startOffset, span) ==
    getLocationFromLength(uri,
        startOffset + (IF span.innerOffset = Null THEN 0 ELSE span.innerOffset),
        span.length)

\* The handler up to innerLocation; without a quoted word and a position it
\* makes none.
Locate ==
    /\ phase = "locate"
    /\ lint.pc = "locate"
    /\ lint' = [lint EXCEPT
                    !.pc = "located",
                    !.innerLocation =
                        IF localized(lint.error)
                        THEN innerLocationOf("R", lint.startOffset,
                                             innerSpan(lint.sql, lint.error))
                        ELSE NoSpan]
    /\ UNCHANGED <<files, stack, returned, phase, caches, collection>>

SpanSpec == SpanInit /\ [][Locate]_vars

----------------------------------------------------------------------------
(* The split of a document that opens with an @include directive without a *)
(* payload: "--", a blank or none, "@include", a ":" or a blank, at most   *)
(* MaxBlanks blanks, and the end of the line or of the text.               *)

MaxBlanks == 2

Blanks == Concatenations({ <<" ">>, <<"\t">> }, MaxBlanks)

EmptyIncludeTexts ==
    { <<"-", "-">> \o lead \o AtInclude \o sep \o blanks \o tail :
        lead \in { <<>>, <<" ">> },
        sep \in { <<":">>, <<" ">>, <<"\t">> },
        blanks \in Blanks,
        tail \in { <<>>, <<"\n", "a", ";">>, <<"\r", "\n", "a", ";">> } }

PayloadInit ==
    /\ \E r \in EmptyIncludeTexts \cup LintRootTexts :
        \E a \in (IF Uses(r, "A") THEN ALintFiles ELSE { Missing }) :
            files = [n \in Files |->
                        IF n = "R" THEN File(r) ELSE IF n = "A" THEN a ELSE Missing]
    /\ SplitBegun

PayloadSpec == PayloadInit /\ [][Next]_vars

----------------------------------------------------------------------------
(* Positions of the offsets of one text: the line starts of the text are   *)
(* cached, then one offset of it is converted.                             *)

MaxChars == 5       \* characters of a text whose offsets are converted

LinePieces == { <<"a">>, <<"\n">>, <<"\r">> }

PositionInit ==
    /\ \E text \in Concatenations(LinePieces, MaxChars) :
        files = [n \in Files |-> IF n = "R" THEN File(text) ELSE Missing]
    /\ stack = <<>>
    /\ returned = <<>>
    /\ phase = "position"
    /\ LINE_STARTS_CACHE = clearPositionsCaches.lineStarts
    /\ FILE_LENGTHS_CACHE = clearPositionsCaches.fileLengths
    /\ collection = NoDiagnostics
    /\ lint = [pc |-> "cache", offset |-> 0, position |-> Thrown]

\* cacheLineStarts(uri, sql)
CacheLines ==
    /\ phase = "position"
    /\ lint.pc = "cache"
    /\ LINE_STARTS_CACHE' = cacheLineStarts("R").lineStarts
    /\ FILE_LENGTHS_CACHE' = cacheLineStarts("R").fileLengths
    /\ lint' = [lint EXCEPT !.pc = "cached"]
    /\ UNCHANGED <<files, stack, returned, phase, collection>>

\* getPosition(uri, offset)
Convert ==
    /\ phase = "position"
    /\ lint.pc = "cached"
    /\ \E offset \in 0..Len(files["R"].text) :
        lint' = [pc |-> "converted", offset |-> offset,
                 position |-> getPosition("R", offset)]
    /\ UNCHANGED <<files, stack, returned, phase, caches, collection>>

PositionSpec == PositionInit /\ [][CacheLines \/ Convert]_vars

----------------------------------------------------------------------------
(* What the claims speak of, defined on the texts and on the Statement     *)
(* lists, apart from the scan loop.                                        *)

\* Every Statement list of the state: of each active call, and the result.
Lists == { stack[i].statements : i \in 1..Len(stack) } \cup { returned }

\* A Statement of the unit that is being split, not taken over from an include.
Native(s) == s.includedAt = NoLoc

IsSql(s) == s.sql # <<>>

IsTemplate(s) == s.template # <<>>

UnitText(s) == files[s.location.uri].text

\* 1-based index of the first and of the last character of a Statement's span.
First(s) == s.location.startOffset + 1

Last(s) == s.location.startOffset + s.location.length + 1

\* The first index > i of character c in t, 0 if there is none.
RECURSIVE NextIndex(_, _, _)
NextIndex(t, c, i) ==
    IF i >= Len(t) THEN 0
    ELSE IF t[i + 1] = c THEN i + 1
    ELSE NextIndex(t, c, i + 1)

\* The dollar-quote tags that occur in the texts of the model.
Tags == { <<"$", "$">>, <<"$", "t", "$">> }

TagAt(t, i) ==
    { g \in Tags : i + Len(g) - 1 <= Len(t) /\ SubSeq(t, i, i + Len(g) - 1) = g }

\* The 1-based index where the closing tag g behind the opening tag at i starts,
\* 0 if there is none.
ClosingTag(t, g, i) ==
    LET k == IndexFrom(t, g, i + Len(g) - 1) IN IF k = -1 THEN 0 ELSE k + 1

\* The indices of t that lie in a quoted span (the quotes and tags included),
\* the spans read from left to right from index i on.  A span runs from a quote
\* character to the next occurrence of the same character, or from a dollar tag
\* to the end of the next occurrence of the same tag.  A quote character that
\* is never closed opens a span to the end of the text if open, and none if not.
RECURSIVE Spans(_, _, _)
Spans(t, i, open) ==
    IF i > Len(t) THEN {}
    ELSE IF t[i] \in {"'", "\"", Backtick}
         THEN LET j == NextIndex(t, t[i], i) IN
              IF j = 0 THEN (IF open THEN i..Len(t) ELSE {})
              ELSE (i..j) \cup Spans(t, j + 1, open)
         ELSE IF TagAt(t, i) # {}
              THEN LET g == CHOOSE g \in TagAt(t, i) : TRUE
                       k == ClosingTag(t, g, i) IN
                   IF k = 0 THEN Spans(t, i + 1, open)
                   ELSE (i..(k + Len(g) - 1)) \cup Spans(t, k + Len(g), open)
              ELSE Spans(t, i + 1, open)

\* The closed quoted spans.
QuotedFrom(t, i) == Spans(t, i, FALSE)

AtDashes(t, i) == i + 1 <= Len(t) /\ t[i] = "-" /\ t[i + 1] = "-"

\* The end of the line of index i: the index of its "\n", Len(t) if it has none.
LineEnd(t, i) == LET e == NextIndex(t, "\n", i) IN IF e = 0 THEN Len(t) ELSE e

\* The first index >= i of t that is neither whitespace nor in a line comment,
\* Len(t) + 1 if there is none.
RECURSIVE SkipBlank(_, _)
SkipBlank(t, i) ==
    IF i > Len(t) THEN i
    ELSE IF IsSpace(t[i]) THEN SkipBlank(t, i + 1)
    ELSE IF AtDashes(t, i) THEN SkipBlank(t, LineEnd(t, i) + 1)
    ELSE i

\* The indices of t that lie in a comment, the text read from left to right from
\* index i on: a line comment runs from an unquoted -- to the end of its line,
\* a block comment from an unquoted /* to the next */.
RECURSIVE CommentFrom(_, _)
CommentFrom(t, i) ==
    IF i > Len(t) THEN {}
    ELSE IF t[i] \in {"'", "\"", Backtick}
         THEN LET j == NextIndex(t, t[i], i) IN
              IF j = 0 THEN {} ELSE CommentFrom(t, j + 1)
         ELSE IF TagAt(t, i) # {} /\ ClosingTag(t, CHOOSE g \in TagAt(t, i) : TRUE, i) # 0
              THEN LET g == CHOOSE g \in TagAt(t, i) : TRUE IN
                   CommentFrom(t, ClosingTag(t, g, i) + Len(g))
         ELSE IF AtDashes(t, i)
              THEN (i..LineEnd(t, i)) \cup CommentFrom(t, LineEnd(t, i) + 1)
         ELSE IF i + 1 <= Len(t) /\ t[i] = "/" /\ t[i + 1] = "*"
              THEN LET k == IndexFrom(t, <<"*", "/">>, i + 1) IN
                   IF k = -1 THEN i..Len(t)
                   ELSE (i..(k + 2)) \cup CommentFrom(t, k + 3)
         ELSE CommentFrom(t, i + 1)

\* Letters, ";" and whitespace only: no directive, no quote, no comment.
Plain(t) == \A i \in 1..Len(t) : t[i] \in {"a", ";", "\n", " "}

\* The number of segments of t from index i on that hold a character other than
\* whitespace: those that end with a ";", and the one behind the last ";".
\* seen: the segment read so far holds such a character.
RECURSIVE Segments(_, _, _)
Segments(t, i, seen) ==
    IF i > Len(t) THEN (IF seen THEN 1 ELSE 0)
    ELSE IF t[i] = ";" THEN (IF seen THEN 1 ELSE 0) + Segments(t, i + 1, FALSE)
    ELSE Segments(t, i + 1, seen \/ ~IsSpace(t[i]))

\* The text a Location spans.
LocatedText(loc) ==
    SubSeq(files[loc.uri].text, loc.startOffset + 1, loc.startOffset + loc.length)

\* The Location is that of an @include directive.
IsIncludeAt(loc) == loc # NoLoc /\ StartsWith(LocatedText(loc), AtInclude)

\* The path the @include directive at the Location names.
IncludedPath(loc) == Trim(Drop(LocatedText(loc), Len(AtInclude) + 1))

\* The name the @template directive at the Location gives.
TemplateNameAt(loc) == Trim(Drop(LocatedText(loc), Len(AtTemplate) + 1))

\* A name without the double quotes around it.
Unquote(n) ==
    IF Len(n) >= 2 /\ n[1] = "\"" /\ n[Len(n)] = "\""
    THEN SubSeq(n, 2, Len(n) - 1)
    ELSE n

\* Quoting-insensitive equality of two template names.
SameName(a, b) == Unquote(a) = Unquote(b)

IsIncludeFailure(s) == s.error \in {ErrNoEnt, ErrNotFile}

IsTemplateError(s) == s.error = TEMPLATE_DIRECTIVE_ERROR_FIRST

----------------------------------------------------------------------------
\* C1: no Statement ends on a ";" that lies inside a single-quoted,
\* double-quoted, backtick-quoted or dollar-quoted span of that statement; and
\* the text ';'; yields exactly one statement, which ends at the second ";".
C1_QuotedSemicolonNeverEnds ==
    /\ \A L \in Lists : \A j \in 1..Len(L) :
            IsSql(L[j]) =>
                ~ /\ UnitText(L[j])[Last(L[j])] = ";"
                  /\ Last(L[j]) \in QuotedFrom(UnitText(L[j]), First(L[j]))
    /\ (phase = "done" /\ files["R"].text = <<"'", ";", "'", ";">>) =>
            /\ Len(returned) = 1
            /\ returned[1].sql = <<"'", ";", "'", ";">>
            /\ returned[1].location.startOffset + returned[1].location.length = 3

\* A statement with a ";" inside a quoted span was emitted, ended by a later ";".
C1_Witness ==
    /\ phase = "done"
    /\ \E j \in 1..Len(returned) :
        /\ IsSql(returned[j])
        /\ UnitText(returned[j])[Last(returned[j])] = ";"
        /\ \E k \in QuotedFrom(UnitText(returned[j]), First(returned[j])) :
                k < Last(returned[j]) /\ UnitText(returned[j])[k] = ";"

----------------------------------------------------------------------------
C3_CommentedSemicolonNeverEnds ==
    \A L \in Lists : \A j \in 1..Len(L) :
        IsSql(L[j]) =>
            ~ /\ UnitText(L[j])[Last(L[j])] = ";"
              /\ Last(L[j]) \in CommentFrom(UnitText(L[j]), First(L[j]))

\* C10 (as claimed): a text without directives, quotes and comments yields as
\* many Statements as it has segments with a character other than whitespace.
C10_CountsNonEmptySegments ==
    (phase = "done" /\ Plain(files["R"].text)) =>
        Len(returned) = Segments(files["R"].text, 1, FALSE)

----------------------------------------------------------------------------
C5_FailedIncludeHalts ==
    \A L \in Lists : \A j \in 1..Len(L) :
        IsIncludeFailure(L[j]) =>
            /\ IsIncludeAt(L[j].location)
            /\ \A k \in 1..Len(L) :
                    L[k].location.uri = L[j].location.uri =>
                        L[k].location.startOffset <= L[j].location.startOffset
            /\ Native(L[j]) =>
                    /\ j = Len(L)
                    /\ \A k \in 1..(j - 1) :
                            ~(Native(L[k]) /\ L[k].location = L[j].location)

\* The root's split ended with the error of a failed @include, and the root text
\* has a statement behind the directive.
C5_Witness ==
    /\ phase = "done"
    /\ returned # <<>>
    /\ LET e == returned[Len(returned)] IN
        /\ IsIncludeFailure(e)
        /\ Native(e)
        /\ \E k \in 1..Len(files["R"].text) :
            /\ k > e.location.startOffset + e.location.length
            /\ files["R"].text[k] = ";"

----------------------------------------------------------------------------
\* The least index of a native template Statement of L, 0 if there is none.
FirstTemplate(L) ==
    IF \E i \in 1..Len(L) : IsTemplate(L[i]) /\ Native(L[i])
    THEN CHOOSE i \in 1..Len(L) :
            /\ IsTemplate(L[i]) /\ Native(L[i])
            /\ \A k \in 1..(i - 1) : ~(IsTemplate(L[k]) /\ Native(L[k]))
    ELSE 0

TemplateHere ==
    /\ LineCommentHere
    /\ ~INCLUDE_PREFIX(commentText(commentLine(Top)))
    /\ TEMPLATE_PREFIX(commentText(commentLine(Top)))

\* The name the directive at the scan gives.
TemplateNameHere == template(directive(commentText(commentLine(Top))))

ValidTemplateHere == TemplateHere /\ validateDatabaseName(TemplateNameHere) = ""

\* The step of the scan loop at a @template directive with a valid name decides
\* by the template Statements in the unit's list, its own and those an earlier
\* @include brought in: if each has the directive's name, quotes aside, a
\* template Statement is pushed and the scan goes on, and if not, an error
\* Statement at the directive is pushed and the call returns.
TemplateDecision ==
    ValidTemplateHere =>
        LET L == Top.statements
            n == TemplateNameHere
            location == directiveLocation(Top, commentLine(Top))
            after == stack'[Len(stack)]
        IN  /\ Len(stack') = Len(stack)
            /\ LocatedText(location) = commentText(commentLine(Top))
            /\ IF \A i \in 1..Len(L) : IsTemplate(L[i]) => SameName(L[i].template, n)
               THEN /\ after.statements = Append(L, TemplateStatement(location, n))
                    /\ after.pc = "scan"
               ELSE /\ after.statements = Append(L, ErrorStatement(location, TEMPLATE_DIRECTIVE_ERROR_FIRST))
                    /\ after.pc = "return"

\* The error Statement of a rejected @template directive is the last Statement
\* of its unit's split.
TemplateErrorIsLast ==
    \A L \in Lists : \A j \in 1..Len(L) :
        (IsTemplateError(L[j]) /\ Native(L[j])) => j = Len(L)

TemplateAfterSqlAccepted ==
    ( /\ ValidTemplateHere
      /\ \A i \in 1..Len(Top.statements) : ~IsTemplate(Top.statements[i]) ) =>
        /\ Len(stack') = Len(stack)
        /\ stack'[Len(stack)].pc = "scan"
        /\ stack'[Len(stack)].statements =
                Append(Top.statements,
                       TemplateStatement(directiveLocation(Top, commentLine(Top)),
                                         TemplateNameHere))

\* The error of a rejected @template directive has a template Statement with
\* another name before it.
TemplateErrorHasCause ==
    \A L \in Lists : \A j \in 1..Len(L) :
        (IsTemplateError(L[j]) /\ Native(L[j])) =>
            \E i \in 1..(j - 1) :
                /\ IsTemplate(L[i])
                /\ ~SameName(L[i].template, TemplateNameAt(L[j].location))

----------------------------------------------------------------------------
(* What the claims about the Error Locator speak of.                       *)

\* The handler has run on a failing statement.
Handled == lint.pc = "handled"

Failing == lint.statement

FailingUnit == Failing.location.uri

\* The diagnostics of a unit that have the severity.
Of(uri, severity) ==
    { collection[uri][k] : k \in { k \in 1..Len(collection[uri]) :
                                        collection[uri][k].severity = severity } }

\* The Position of an offset of a text: the line is the number of "\n" before
\* the offset, the character the distance from the last of them.
PositionAt(text, offset) ==
    LET breaks == { k \in 1..Len(text) : k <= offset /\ text[k] = "\n" }
        last == IF breaks = {} THEN 0 ELSE CHOOSE k \in breaks : \A j \in breaks : j <= k
    IN [line |-> Cardinality(breaks), character |-> offset - last]

\* The Range of the length characters from the offset on of the unit.
SpanOf(uri, offset, length) ==
    Range(PositionAt(files[uri].text, offset), PositionAt(files[uri].text, offset + length))

\* The 0-based offsets in t at which the word occurs.
Occurrences(t, word) ==
    { k \in 0..(Len(t) - Len(word)) : SubSeq(t, k + 1, k + Len(word)) = word }

FirstOccurrence(t, word) ==
    CHOOSE k \in Occurrences(t, word) : \A j \in Occurrences(t, word) : k <= j

\* The X of a message column "X" ..., <<>> if the message is not of that form.
ColumnWord(m) ==
    IF StartsWith(m, Chars_Column \o <<"\"">>)
          /\ NextIndex(m, "\"", Len(Chars_Column) + 1) > Len(Chars_Column) + 2
    THEN SubSeq(m, Len(Chars_Column) + 2, NextIndex(m, "\"", Len(Chars_Column) + 1) - 1)
    ELSE <<>>

\* The failing statement's message is column "X" ... without a position, and X
\* occurs in the statement.
ColumnWordCase ==
    /\ Handled
    /\ lint.error.position = NoPosition
    /\ ColumnWord(lint.error.message) # <<>>
    /\ Occurrences(Failing.sql, ColumnWord(lint.error.message)) # {}

\* C11: when the message of the failing statement is column "X" ... with no
\* position and X occurs in the statement, the unit of the statement has an
\* Error diagnostic, and every Error diagnostic of the unit spans exactly the
\* first occurrence of X in the statement: it starts at the source offset of
\* that occurrence and has the length of X.
C11_ColumnWordSpan ==
    ColumnWordCase =>
        LET X == ColumnWord(lint.error.message) IN
        /\ Of(FailingUnit, "Error") # {}
        /\ \A d \in Of(FailingUnit, "Error") :
                d.range = SpanOf(FailingUnit,
                                 Failing.location.startOffset + FirstOccurrence(Failing.sql, X),
                                 Len(X))

\* The word occurs in the statement behind an occurrence in other case.
C11_Witness ==
    /\ ColumnWordCase
    /\ FirstOccurrence(Failing.sql, ColumnWord(lint.error.message)) > 0
    /\ Of(FailingUnit, "Error") # {}

\* The unreachable ranges of a unit: its diagnostics tagged Unnecessary.
Unreachable(uri) ==
    { collection[uri][k] : k \in { k \in 1..Len(collection[uri]) :
                                        "Unnecessary" \in collection[uri][k].tags } }

\* The 0-based offset of the ";" that closes the failing statement, -1 if the
\* statement ends with the text.
ClosingSemicolon ==
    LET at == Failing.location.startOffset + Failing.location.length IN
    IF at < Len(UnitText(Failing)) /\ UnitText(Failing)[at + 1] = ";" THEN at ELSE -1

\* C12 (as claimed): the unreachable range emitted in the unit of a failing
\* statement starts at the offset immediately after the statement's closing
\* ";", which itself is not part of the range.
C12_UnreachableAfterSemicolon ==
    (Handled /\ ClosingSemicolon # -1) =>
        \A d \in Unreachable(FailingUnit) :
            d.range.start = PositionAt(UnitText(Failing), ClosingSemicolon + 1)

\* What the code does instead: the range starts at the closing ";".
UnreachableAtSemicolon ==
    (Handled /\ ClosingSemicolon # -1) =>
        /\ Unreachable(FailingUnit) # {}
        /\ \A d \in Unreachable(FailingUnit) :
                d.range.start = PositionAt(UnitText(Failing), ClosingSemicolon)

\* C16: after every backend failure of a statement the handler has returned
\* false, the signal to stop, and the unit of the failing statement holds at
\* least one diagnostic of severity Error, whether the error was localized or
\* only the whole statement could be flagged.
C16_ErrorAndStop ==
    Handled =>
        /\ ~lint.threw
        /\ lint.shouldContinue = FALSE
        /\ Of(FailingUnit, "Error") # {}

\* The whole-statement-only branch: no quoted word and no position.
C16_Witness ==
    /\ Handled
    /\ ~localized(lint.error)
    /\ lint.shouldContinue = FALSE
    /\ Of(FailingUnit, "Error") # {}

\* The Range of a Location, from the text of its unit.
SpanOfLocation(location) == SpanOf(location.uri, location.startOffset, location.length)

\* C17 (as claimed): whenever the failing statement has includedAt, the
\* including file holds an Error diagnostic at the range of the include
\* directive, with related information that points into the included file, and
\* an unreachable range; in the localized branch and in the whole-statement
\* branch alike.
C17_IncludeMirrored ==
    (Handled /\ Failing.includedAt # NoLoc) =>
        /\ \E d \in Of(Failing.includedAt.uri, "Error") :
                /\ d.range = SpanOfLocation(Failing.includedAt)
                /\ d.relatedInformation # NoRelated
                /\ d.relatedInformation.uri = FailingUnit
        /\ Unreachable(Failing.includedAt.uri) # {}

\* The statement's own range holds a diagnostic of the severity.
WholeStatementIs(severity) ==
    \E d \in Of(FailingUnit, severity) : d.range = SpanOfLocation(Failing.location)

\* The backend reported a position, or the quoted word of the message occurs in
\* the statement, in its own case or in lower case.
FoundInStatement ==
    \/ lint.error.position # NoPosition
    \/ /\ quoted(lint.error.message) # <<>>
       /\ \/ Occurrences(Failing.sql, quoted(lint.error.message)) # {}
          \/ Occurrences(toLowerCase(Failing.sql), quoted(lint.error.message)) # {}

\* C18 (as claimed): the whole failing statement is highlighted as an Error when
\* neither the reported position nor the quoted word of the message is found in
\* the statement; when one of them is found, the unit holds an Error diagnostic
\* and the statement's own diagnostic, if there is one, is a Warning.
C18_WholeStatementErrorIffNotFound ==
    Handled =>
        /\ ~FoundInStatement => WholeStatementIs("Error")
        /\ FoundInStatement =>
                /\ Of(FailingUnit, "Error") # {}
                /\ \A d \in Of(FailingUnit, "Error") \cup Of(FailingUnit, "Warning") :
                        StartsWith(d.message, Chars_InThisStatement)
                            => d.severity = "Warning"

----------------------------------------------------------------------------
(* What the claims about the lint cycle speak of.                          *)

\* The indices of the statements that have sql, in the order of the sequence.
SqlIndices ==
    SelectSeq([k \in 1..Len(returned) |-> k], LAMBDA k : returned[k].sql # <<>>)

\* The cycle is past the split.
InCycle == lint.pc \in {"setup", "connect", "loop", "query", "cleanup", "returned"}

AllDiagnostics(severity) == UNION { Of(u, severity) : u \in Files }

\* C13: the statements whose sql was sent are the first statements with sql, in
\* the order of the sequence, one query at a time; once a statement has failed
\* (its query threw, or it is a record with an error) no query is outstanding
\* and no statement behind it was sent; and Error diagnostics were pushed for at
\* most one statement of the cycle.
C13_StopAtFirstFailure ==
    InCycle =>
        /\ Len(lint.sent) <= Len(SqlIndices)
        /\ lint.sent = SubSeq(SqlIndices, 1, Len(lint.sent))
        /\ Len(lint.flagged) <= 1
        /\ lint.flagged # <<>> =>
                /\ lint.pc \in {"cleanup", "returned"}
                /\ \A k \in 1..Len(lint.sent) : lint.sent[k] <= lint.flagged[1]
        /\ AllDiagnostics("Error") # {} => lint.flagged # <<>>

\* The first of two statements with sql has failed and the cycle has returned.
C13_Witness ==
    /\ lint.pc = "returned"
    /\ lint.flagged = <<1>>
    /\ lint.sent = <<1>>
    /\ Len(SqlIndices) >= 2
    /\ AllDiagnostics("Error") # {}

C19_EveryHintTagged ==
    \A d \in AllDiagnostics("Hint") : "Unnecessary" \in d.tags

\* The diagnostic is the statistics of a statement whose query succeeded.
IsStatistics(u, d) ==
    /\ InCycle
    /\ lint.queryStats
    /\ d.message = Chars_Stats
    /\ \E k \in 1..Len(lint.sent) :
            /\ lint.sent[k] < lint.i
            /\ returned[lint.sent[k]].location.uri = u
            /\ d.range = SpanOfLocation(returned[lint.sent[k]].location)

\* C19 (amended): every diagnostic that marks unreachable statements has the
\* severity Hint and carries the Unnecessary tag, and a Hint without the tag is
\* the statistics of a statement whose query succeeded, with queryStats on.
C19_HintTaggedOrStatistics ==
    \A u \in Files : \A d \in Of(u, "Hint") \cup Unreachable(u) :
        /\ d.message = Chars_Unreachable => (d.severity = "Hint" /\ "Unnecessary" \in d.tags)
        /\ "Unnecessary" \in d.tags => (d.severity = "Hint" /\ d.message = Chars_Unreachable)
        /\ "Unnecessary" \notin d.tags => IsStatistics(u, d)

\* A unit holds the statistics of a statement and an unreachable range.
C19_Witness ==
    \E u \in Files :
        /\ \E d \in Of(u, "Hint") : "Unnecessary" \notin d.tags /\ IsStatistics(u, d)
        /\ \E d \in Of(u, "Hint") : "Unnecessary" \in d.tags

\* The statement for which the cycle pushed Error diagnostics.
Flagged == returned[lint.flagged[1]]

\* The unreachable range behind a Location, from the text of its unit: from
\* the end of the Location to the last character of the text.
UnreachableBehind(location) ==
    Range(PositionAt(files[location.uri].text, location.startOffset + location.length),
          PositionAt(files[location.uri].text, Len(files[location.uri].text) - 1))

\* C15 (as claimed): when a second cycle starts while the cycle is suspended,
\* no conversion of the cycle fails, and every unreachable range it publishes
\* is the one that the line starts of the text it split give.
C15_OwnLineStarts ==
    (InCycle /\ lint.flagged # <<>>) =>
        /\ ~lint.threw
        /\ \A u \in Files : \A d \in Unreachable(u) :
                \/ u = Flagged.location.uri /\ d.range = UnreachableBehind(Flagged.location)
                \/ /\ Flagged.includedAt # NoLoc
                   /\ u = Flagged.includedAt.uri
                   /\ d.range = UnreachableBehind(Flagged.includedAt)

----------------------------------------------------------------------------
(* What the claim about the place of directives speaks of.                 *)

\* The 0-based offset where the text of the line comment begins whose "--" is
\* at index i: behind the "--" and the blanks that follow it.
CommentTextStart(t, i) == i + 1 + Run(t, i + 2, LAMBDA c : c \in {" ", "\t"})

\* The offsets where the text of a line comment begins that begins where a new
\* statement could start, the text read from index i on.  inStatement: a
\* statement has begun and its ";" is not yet read.  Quoted spans and comments
\* are read as in CommentFrom; a comment neither begins nor ends a statement.
RECURSIVE DirectiveSites(_, _, _)
DirectiveSites(t, i, inStatement) ==
    IF i > Len(t) THEN {}
    ELSE IF t[i] \in {"'", "\"", Backtick}
         THEN LET j == NextIndex(t, t[i], i) IN
              IF j = 0 THEN {} ELSE DirectiveSites(t, j + 1, TRUE)
         ELSE IF TagAt(t, i) # {} /\ ClosingTag(t, CHOOSE g \in TagAt(t, i) : TRUE, i) # 0
              THEN LET g == CHOOSE g \in TagAt(t, i) : TRUE IN
                   DirectiveSites(t, ClosingTag(t, g, i) + Len(g), TRUE)
         ELSE IF AtDashes(t, i)
              THEN (IF inStatement THEN {} ELSE { CommentTextStart(t, i) })
                        \cup DirectiveSites(t, LineEnd(t, i) + 1, inStatement)
         ELSE IF i + 1 <= Len(t) /\ t[i] = "/" /\ t[i + 1] = "*"
              THEN LET k == IndexFrom(t, <<"*", "/">>, i + 1) IN
                   IF k = -1 THEN {} ELSE DirectiveSites(t, k + 3, inStatement)
         ELSE IF t[i] = ";" THEN DirectiveSites(t, i + 1, FALSE)
         ELSE IF IsSpace(t[i]) THEN DirectiveSites(t, i + 1, inStatement)
         ELSE DirectiveSites(t, i + 1, TRUE)

\* The Locations of the directives that have had an effect: those whose file
\* is being read or was read, and those of the template and error records.
EffectLocations ==
    { stack[i].location : i \in { i \in 1..Len(stack) : stack[i].pc = "await" } }
        \cup UNION { { L[j].includedAt : j \in { j \in 1..Len(L) : ~Native(L[j]) } }
                        : L \in Lists }
        \cup UNION { { L[j].location :
                        j \in { j \in 1..Len(L) : L[j].error # "" \/ IsTemplate(L[j]) } }
                        : L \in Lists }

\* C20 (as claimed): a directive has an effect (a file read, a template record
\* or an error record) only if it is the text of a line comment that begins
\* where a new statement could start: never if it lies in a block comment, or
\* in a line comment behind the beginning of a statement and before its ";".
C20_DirectiveOnlyBetweenStatements ==
    \A location \in EffectLocations :
        location.startOffset \in DirectiveSites(files[location.uri].text, 1, FALSE)

----------------------------------------------------------------------------
\* Every run of double quotes in s has an even length.
QuoteRunsEven(s) ==
    \A i \in 1..Len(s) :
        (s[i] = "\"" /\ (i = Len(s) \/ s[i + 1] # "\"")) =>
            \E k \in 1..i :
                /\ \A j \in k..i : s[j] = "\""
                /\ (k = 1 \/ s[k - 1] # "\"")
                /\ (i - k + 1) % 2 = 0

\* The names the claim accepts: an unquoted identifier, or an opening and a
\* separate closing double quote around an interior whose quotes are doubled.
Acceptable(n) ==
    /\ \A i \in 1..Len(n) : n[i] # Nul
    /\ \/ ValidUnquotedName(n)
       \/ /\ Len(n) >= 2
          /\ n[1] = "\"" /\ n[Len(n)] = "\""
          /\ QuoteRunsEven(SubSeq(n, 2, Len(n) - 1))

\* The document opens with a @template directive.
OpensWithTemplate ==
    StartsWith(files["R"].text, <<"-", "-">> \o AtTemplate \o <<":">>)

\* C21: the split of a document that opens with a @template directive yields a
\* template Statement for the directive if and only if its name is an unquoted
\* identifier or is enclosed in an opening and a separate closing double quote
\* with every interior quote doubled; for every other name it yields an error
\* Statement at the directive and nothing after it.
C21_NameAcceptedIffWellFormed ==
    (phase = "done" /\ OpensWithTemplate) =>
        /\ returned # <<>>
        /\ StartsWith(LocatedText(returned[1].location), AtTemplate)
        /\ IsTemplate(returned[1]) <=> Acceptable(TemplateNameAt(returned[1].location))
        /\ ~Acceptable(TemplateNameAt(returned[1].location)) =>
                (Len(returned) = 1 /\ returned[1].error # "")

----------------------------------------------------------------------------
\* C22: in a lint cycle terminateBackend is called only if the setting
\* autoTerminateTemplateConnections is true and the first Statement of the
\* split is a template Statement, and then for that template alone; with the
\* setting false no cycle calls it.
C22_TerminateOnlyIfSetAndTemplate ==
    InCycle =>
        /\ lint.terminated # <<>> =>
                /\ lint.autoTerminateTemplateConnections
                /\ IsTemplate(returned[1])
                /\ lint.terminated = <<returned[1].template>>
        /\ ~lint.autoTerminateTemplateConnections => lint.terminated = <<>>

\* A cycle with the setting on and a template directive first has terminated
\* the template's connections and created the database.
C22_Witness ==
    /\ InCycle
    /\ lint.terminated # <<>>
    /\ lint.created

----------------------------------------------------------------------------
\* The word of the first construct in m that begins with the prefix, then has
\* a run of characters of the class, then the closing character; <<>> if m
\* has no such construct.
TokenAfter(m, prefix, Class(_), closing) ==
    LET Word(p) == SubSeq(m, p + Len(prefix), p + Len(prefix) + Run(m, p + Len(prefix), Class) - 1)
        sites == { p \in 1..Len(m) :
                    /\ StartsWith(Drop(m, p - 1), prefix)
                    /\ Word(p) # <<>>
                    /\ StartsWith(Drop(m, p - 1 + Len(prefix) + Len(Word(p))), closing) }
    IN IF sites = {} THEN <<>>
       ELSE Word(CHOOSE p \in sites : \A q \in sites : p <= q)

\* X of the first column "X" construct of the message
ColumnToken(m) == TokenAfter(m, Chars_Column \o <<"\"">>, NotQuote, <<"\"">>)

\* The operand of the first "operator does not exist: type operand" of the message
OperatorToken(m) ==
    LET sites == { p \in 1..Len(m) : operatorAt(m, p) # <<>> }
    IN IF sites = {} THEN <<>>
       ELSE operatorAt(m, CHOOSE p \in sites : \A q \in sites : p <= q)

\* The last double-quoted substring of the message
LastQuoted(m) ==
    LET opens == { o \in 1..Len(m) :
                    /\ m[o] = "\""
                    /\ Run(m, o + 1, NotQuote) > 0
                    /\ o + 1 + Run(m, o + 1, NotQuote) <= Len(m)
                    /\ \A k \in (o + 2 + Run(m, o + 1, NotQuote))..Len(m) : m[k] # "\"" }
    IN IF opens = {} THEN <<>>
       ELSE LET o == CHOOSE o \in opens : TRUE
            IN SubSeq(m, o + 1, o + Run(m, o + 1, NotQuote))

\* C23: the token extracted from a message is the operand of its operator
\* construct if it has one, else the X of its column "X" construct if it has
\* one, wherever that construct occurs, and the last double-quoted substring
\* only if it has neither.
C23_TokenByPriority ==
    lint.pc = "matched" =>
        IF OperatorToken(lint.message) # <<>>
        THEN lint.quoted = OperatorToken(lint.message)
        ELSE IF ColumnToken(lint.message) # <<>>
             THEN lint.quoted = ColumnToken(lint.message)
             ELSE lint.quoted = LastQuoted(lint.message)

----------------------------------------------------------------------------
(* What the claims about the marked span speak of.                         *)

Located == lint.pc = "located"

\* The quoted word of the message: each message of SpanMessages has at most one.
Token == LastQuoted(lint.error.message)

\* The 0-based offset in the sql at which the search window begins.
WindowStart == IF lint.error.position = NoPosition THEN 0 ELSE lint.error.position - 1

Window == Drop(lint.sql, WindowStart)

\* The number of characters of [A-Za-z0-9_"] at the head of t.
ClassRun(t) ==
    IF \E k \in 1..Len(t) : t[k] \notin Letter \cup Digit \cup {"_", "\""}
    THEN (CHOOSE k \in 1..Len(t) :
            /\ t[k] \notin Letter \cup Digit \cup {"_", "\""}
            /\ \A j \in 1..(k - 1) : t[j] \in Letter \cup Digit \cup {"_", "\""}) - 1
    ELSE Len(t)

\* The marked span is the length characters at the offset in the sql.
Marks(offset, length) ==
    /\ lint.innerLocation.startOffset = lint.startOffset + offset
    /\ lint.innerLocation.length = length

\* The token occurs in the window in no letter case.
TokenAbsent ==
    /\ Token # <<>>
    /\ Occurrences(toLowerCase(Window), toLowerCase(Token)) = {}

\* C24: with a position and a quoted token that does not occur in the
\* statement from the position on, the span starts at the position and runs to
\* the first character outside [A-Za-z0-9_"] or to the end of the statement,
\* and is at least one character long, as without a token.
C24_AbsentTokenFallsBackToPosition ==
    (Located /\ lint.error.position # NoPosition /\ TokenAbsent) =>
        Marks(WindowStart, Max(1, ClassRun(Window)))

\* C25: the marked span lies inside the statement: it starts at or behind the
\* statement's start and ends at or before the end of the statement's sql.
C25_SpanInsideStatement ==
    (Located /\ lint.innerLocation # NoSpan) =>
        /\ lint.startOffset <= lint.innerLocation.startOffset
        /\ lint.innerLocation.startOffset + lint.innerLocation.length
                <= lint.startOffset + Len(lint.sql)

\* C27: with a position and no quoted token the span starts at the position
\* and runs to the first character outside [A-Za-z0-9_"] or to the end of the
\* statement, and is at least one character long; every span that is marked
\* is at least one character long.
C27_PositionSpan ==
    Located =>
        /\ (lint.error.position # NoPosition /\ Token = <<>>) =>
                Marks(WindowStart, Max(1, ClassRun(Window)))
        /\ lint.innerLocation # NoSpan => lint.innerLocation.length >= 1

\* A position without a token, at a double quote of the statement that is
\* followed by a word.
C27_Witness ==
    /\ Located
    /\ lint.error.position # NoPosition
    /\ Token = <<>>
    /\ Window # <<>> /\ Window[1] = "\""
    /\ Marks(WindowStart, ClassRun(Window))
    /\ ClassRun(Window) > 1

\* C28: a token that occurs in the window in its own case is marked at its
\* first occurrence there; a token that occurs there in another case only is
\* marked at its first occurrence regardless of case, whatever the case of
\* the token's letters.
C28_CaseInsensitiveFallback ==
    (Located /\ Token # <<>>) =>
        /\ Occurrences(Window, Token) # {} =>
                Marks(WindowStart + FirstOccurrence(Window, Token), Len(Token))
        /\ (Occurrences(Window, Token) = {} /\ ~TokenAbsent) =>
                Marks(WindowStart
                        + FirstOccurrence(toLowerCase(Window), toLowerCase(Token)),
                      Len(Token))

----------------------------------------------------------------------------
\* C26: when the message of the failing statement has no quoted token and the
\* backend reported no position, the unit of the statement holds exactly two
\* diagnostics: the unreachable range, and an Error diagnostic over the whole
\* statement; no span inside the statement is marked.
C26_WholeStatementOnly ==
    (Handled /\ LastQuoted(lint.error.message) = <<>>
             /\ OperatorToken(lint.error.message) = <<>>
             /\ lint.error.position = NoPosition) =>
        /\ Len(collection[FailingUnit]) = 2
        /\ Cardinality(Unreachable(FailingUnit)) = 1
        /\ Cardinality(Of(FailingUnit, "Error")) = 1
        /\ WholeStatementIs("Error")
        /\ Unreachable(FailingUnit) \cap Of(FailingUnit, "Error") = {}

\* A syntax error without a position in a statement of an included file.
C26_Witness ==
    /\ Handled
    /\ lint.error.message = Message_Syntax
    /\ lint.error.position = NoPosition
    /\ Failing.includedAt # NoLoc
    /\ WholeStatementIs("Error")

----------------------------------------------------------------------------
\* The Position of the end of a unit's text: of the offset that is its length.
EndOfText(uri) == PositionAt(files[uri].text, Len(files[uri].text))

\* C29: every unreachable range published for a failing statement, in the
\* statement's unit and in the unit of the include directive, ends at the end
\* of its unit's text, the last character included, and does not start behind
\* its end.
C29_UnreachableToEndOfText ==
    Handled =>
        \A u \in Files : \A d \in Unreachable(u) :
            /\ d.range.end = EndOfText(u)
            /\ ~isBefore(d.range.end, d.range.start)

----------------------------------------------------------------------------
\* The first line of the document, without its line break.
FirstLine ==
    Take(files["R"].text, Run(files["R"].text, 1, NotNewline))

\* The document opens with an @include directive in an accepted spelling that
\* has no payload: behind the "--" and blanks the line is @include, then a ":"
\* or a blank, then blanks alone.
OpensWithEmptyInclude ==
    /\ StartsWith(FirstLine, <<"-", "-">>)
    /\ LET rest == TrimStart(Drop(FirstLine, 2)) IN
        /\ StartsWith(rest, AtInclude)
        /\ Len(rest) > Len(AtInclude)
        /\ rest[Len(AtInclude) + 1] \in {":", " ", "\t"}
        /\ \A k \in (Len(AtInclude) + 2)..Len(rest) : rest[k] \in {" ", "\t"}

\* C30: the split of a document that opens with an @include directive without
\* a payload, spelled with ":" or with a blank, yields an error Statement at
\* the directive and no Statement behind it.
C30_EmptyIncludeIsError ==
    (phase = "done" /\ OpensWithEmptyInclude) =>
        /\ Len(returned) = 1
        /\ returned[1].error # ""
        /\ StartsWith(LocatedText(returned[1].location), AtInclude)

----------------------------------------------------------------------------
IsError(s) == s.error # ""

\* C31 (as claimed): in the sequence the top-level split returns, a record with
\* error set is the last record, also when the error arose in an included file.
C31_ErrorIsLastOfResult ==
    phase = "done" =>
        \A j \in 1..Len(returned) : IsError(returned[j]) => j = Len(returned)

\* C31 (amended): an error Statement is the last Statement of the split of the
\* unit it arose in: in the list of every call and in the result, an error
\* record that was not taken over from an include is the last record.
C31_ErrorIsLastOfItsUnit ==
    \A L \in Lists : \A j \in 1..Len(L) :
        (IsError(L[j]) /\ Native(L[j])) => j = Len(L)

\* The result holds the error record of an included file and, behind it, a
\* statement of the root; and a split has ended with an error of the root.
C31_Witness ==
    /\ phase = "done"
    /\ \E j \in 1..Len(returned) :
        /\ IsError(returned[j])
        /\ ~Native(returned[j])
        /\ j < Len(returned)
        /\ Native(returned[Len(returned)])
        /\ IsSql(returned[Len(returned)])

----------------------------------------------------------------------------
\* The offset in the unit being split at which a record of its list arose: its
\* own start, or the start of the directive that brought it in.
Origin(s) == IF Native(s) THEN s.location.startOffset ELSE s.includedAt.startOffset

\* The records of a list are in the order of their origins, and the records of
\* one directive in the order of the included file's text.
Spliced(L) ==
    \A i \in 1..Len(L) : \A j \in (i + 1)..Len(L) :
        /\ Origin(L[i]) <= Origin(L[j])
        /\ Origin(L[i]) = Origin(L[j]) =>
                /\ ~Native(L[i]) /\ ~Native(L[j])
                /\ L[i].includedAt = L[j].includedAt
                /\ L[i].location.uri = L[j].location.uri =>
                        L[i].location.startOffset < L[j].location.startOffset

\* A call that waits for an included file resumes at the start of the line
\* behind its directive, or at the end of its text.
ResumesBehindDirective ==
    \A k \in 1..Len(stack) :
        stack[k].pc = "await" =>
            LET t == files[stack[k].uri].text
                e == stack[k].location.startOffset + stack[k].location.length
            IN  /\ stack[k].offset >= e
                /\ \A i \in (e + 1)..stack[k].offset :
                        (t[i] = "\n") <=> (i = stack[k].offset)
                /\ stack[k].offset = Len(t) \/ t[stack[k].offset] = "\n"

\* The step that ends an included file's split appends its records, in their
\* order, to the records of the caller.
TakesOver ==
    (Len(stack) >= 2 /\ Len(stack') = Len(stack) - 1) =>
        LET before == stack[Len(stack) - 1].statements
            after == stack'[Len(stack')].statements
        IN  /\ Len(after) = Len(before) + Len(Top.statements)
            /\ SubSeq(after, 1, Len(before)) = before
            /\ \A i \in 1..Len(Top.statements) :
                    /\ after[Len(before) + i].location = Top.statements[i].location
                    /\ after[Len(before) + i].sql = Top.statements[i].sql
                    /\ after[Len(before) + i].error = Top.statements[i].error
            /\ stack'[Len(stack')].offset = stack[Len(stack) - 1].offset

\* C32: the Statements of an included file are taken over as one block and in
\* their own order at the place of the directive: behind every Statement of
\* the including unit that precedes the directive and before every one that
\* follows it, the blocks of several directives in the order of the
\* directives; and the scan resumes on the line behind each directive.
C32_SplicedAtDirective ==
    /\ [](\A L \in Lists : Spliced(L))
    /\ []ResumesBehindDirective
    /\ [][TakesOver]_vars

\* The result holds a statement of the root, behind it two records of one
\* included file, and behind them a statement of the root.
C32_Witness ==
    /\ phase = "done"
    /\ \E i \in 1..Len(returned) : \E j \in (i + 1)..Len(returned) :
        /\ Native(returned[i]) /\ IsSql(returned[i])
        /\ j + 2 <= Len(returned)
        /\ ~Native(returned[j]) /\ ~Native(returned[j + 1])
        /\ Native(returned[j + 2]) /\ IsSql(returned[j + 2])

----------------------------------------------------------------------------
\* The number of the fields sql, template and error of a record that are set.
Populated(s) ==
    (IF s.sql # <<>> THEN 1 ELSE 0) + (IF s.template # <<>> THEN 1 ELSE 0)
        + (IF s.error # "" THEN 1 ELSE 0)

\* C33: every Statement record has exactly one of sql, template and error set,
\* in the lists of the split, in its result, and in the records while the lint
\* cycle runs over them.
C33_ExactlyOnePopulated ==
    \A L \in Lists : \A j \in 1..Len(L) : Populated(L[j]) = 1

\* What holds of the split alone: until the cycle has begun, each record has
\* exactly one of the three set.
OnePopulatedBeforeCycle ==
    ~InCycle => C33_ExactlyOnePopulated

----------------------------------------------------------------------------
\* The Location lies in the text of its unit.
InUnit(loc) ==
    /\ 0 <= loc.startOffset
    /\ loc.startOffset <= loc.startOffset + loc.length
    /\ loc.startOffset + loc.length <= Len(files[loc.uri].text)

\* C34: every Location the splitter makes, of a statement or of a directive,
\* in the root and in the included units, satisfies
\* 0 <= startOffset <= startOffset + length <= length of its unit's text.
C34_LocationInUnit ==
    /\ \A L \in Lists : \A j \in 1..Len(L) :
            /\ InUnit(L[j].location)
            /\ L[j].includedAt # NoLoc => InUnit(L[j].includedAt)
    /\ \A k \in 1..Len(stack) : stack[k].location # NoLoc => InUnit(stack[k].location)

\* The result holds a statement behind another whose end is the end of the
\* text, not a ";".
C34_Witness ==
    /\ phase = "done"
    /\ \E j \in 2..Len(returned) :
        /\ IsSql(returned[j])
        /\ returned[j].sql[Len(returned[j].sql)] # ";"
        /\ returned[j].location.startOffset + returned[j].location.length
                = Len(UnitText(returned[j])) - 1

----------------------------------------------------------------------------
\* Record i is a template record that is not the first record and does not
\* name, quotes aside, the template of the first record.
MisplacedTemplate(i) ==
    /\ i > 1
    /\ IsTemplate(returned[i])
    /\ ~(IsTemplate(returned[1]) /\ SameName(returned[i].template, returned[1].template))

\* The Error diagnostics with the message of the template directive's error.
TemplateErrors(u) ==
    { d \in Of(u, "Error") : d.message = <<TEMPLATE_DIRECTIVE_ERROR_FIRST>> }

\* C35: in a lint cycle a template record that is not the first record and
\* does not equal the first record's template, quotes aside, ends the loop:
\* the cycle never passes it, it produces exactly one Error diagnostic with
\* the message of TEMPLATE_DIRECTIVE_ERROR_FIRST, at the range of the
\* directive, and no statement behind it is sent; a template record that
\* repeats the first record's template is passed without an error.
C35_MisplacedTemplate ==
    InCycle =>
        /\ lint.pc \in {"loop", "query"} =>
                \A j \in 1..(lint.i - 1) : j <= Len(returned) => ~MisplacedTemplate(j)
        /\ \A k \in 1..Len(lint.flagged) :
                LET i == lint.flagged[k] IN
                IF MisplacedTemplate(i)
                THEN /\ lint.pc \notin {"loop", "query"}
                     /\ TemplateErrors(returned[i].location.uri)
                            = { d \in Of(returned[i].location.uri, "Error") :
                                    d.range = SpanOfLocation(returned[i].location) }
                     /\ Cardinality(UNION { TemplateErrors(u) : u \in Files }) = 1
                     /\ \A n \in 1..Len(lint.sent) : lint.sent[n] < i
                ELSE i > 1 => ~IsTemplate(returned[i])

\* The loop has stopped at the template record of an included file that
\* differs from the first record's template.
C35_Witness ==
    /\ InCycle
    /\ lint.flagged # <<>>
    /\ MisplacedTemplate(lint.flagged[1])
    /\ IsTemplate(returned[1])
    /\ ~Native(returned[lint.flagged[1]])
    /\ lint.pc = "returned"

----------------------------------------------------------------------------
\* The sql of the record is the text of its unit from the start of its
\* Location on, character by character, up to a ";" or to the end of the text.
Verbatim(s) ==
    LET t == UnitText(s)
        from == s.location.startOffset
    IN  /\ from + Len(s.sql) <= Len(t)
        /\ \A i \in 1..Len(s.sql) : s.sql[i] = t[from + i]
        /\ s.sql[Len(s.sql)] = ";" \/ from + Len(s.sql) = Len(t)

\* C36: the sql of every Statement with sql equals the text of its unit from
\* location.startOffset through the ";" that ends the statement, or through
\* the end of the text, with no character left out or changed, so that index
\* i of the sql is the source offset location.startOffset + i.
C36_SqlIsSourceText ==
    \A L \in Lists : \A j \in 1..Len(L) : IsSql(L[j]) => Verbatim(L[j])

\* The result holds a statement that does not start its unit and whose sql
\* holds a line break.
C36_Witness ==
    /\ phase = "done"
    /\ \E j \in 1..Len(returned) :
        /\ IsSql(returned[j])
        /\ returned[j].location.startOffset > 0
        /\ \E i \in 1..Len(returned[j].sql) : returned[j].sql[i] = "\n"

----------------------------------------------------------------------------
(* C37: dollar-quoted text.                                                *)

\* The index of the "$" that ends the dollar tag opening at index i of t, 0 if
\* no tag opens there: the tag is a "$", nothing or an identifier that does not
\* start with a digit, and a "$".
TagEnd(t, i) ==
    IF i > Len(t) \/ t[i] # "$" THEN 0
    ELSE LET ends == { e \in (i + 1)..Len(t) :
                        /\ t[e] = "$"
                        /\ \A k \in (i + 1)..(e - 1) : t[k] \in Letter \cup Digit \cup {"_"}
                        /\ e > i + 1 => t[i + 1] \notin Digit }
         IN IF ends = {} THEN 0 ELSE CHOOSE e \in ends : TRUE

\* The index where the first occurrence of the tag t[i..e] behind index e
\* starts, 0 if there is none.
ClosingAt(t, i, e) ==
    LET n == e - i + 1
        at == { k \in (e + 1)..(Len(t) - n + 1) : SubSeq(t, k, k + n - 1) = SubSeq(t, i, e) }
    IN IF at = {} THEN 0 ELSE CHOOSE k \in at : \A m \in at : k <= m

\* The scan stands on a "$" of a statement, outside a quote.
AtDollar ==
    /\ StatementHere
    /\ Top.quoteChar = ""
    /\ Char(Top) = "$"

\* The step of the scan from f: it stays in its unit, pushes nothing, advances
\* over n characters and copies exactly them.
Copies(f, n) ==
    /\ Len(stack') = Len(stack)
    /\ stack'[Len(stack)].uri = f.uri
    /\ stack'[Len(stack)].pc = "scan"
    /\ stack'[Len(stack)].statements = f.statements
    /\ stack'[Len(stack)].quoteChar = ""
    /\ stack'[Len(stack)].isStatement
    /\ stack'[Len(stack)].offset = f.offset + n
    /\ stack'[Len(stack)].currentSql =
            f.currentSql \o SubSeq(Text(f), f.offset + 1, f.offset + n)

\* C37: when the scan stands, inside a statement and outside a quote, on a "$"
\* that opens a valid dollar tag, its step copies the "$" alone and moves one
\* character on if the same tag does not occur again behind the opening tag,
\* and copies the whole text from the opening tag through the first closing
\* tag, resuming right behind it, if it does.
DollarStep ==
    AtDollar /\ TagEnd(Text(Top), Top.offset + 1) # 0 =>
        LET e == TagEnd(Text(Top), Top.offset + 1)
            k == ClosingAt(Text(Top), Top.offset + 1, e)
            n == e - Top.offset
        IN IF k = 0 THEN Copies(Top, 1) ELSE Copies(Top, k + n - 1 - Top.offset)

C37_DollarQuote == [][DollarStep]_vars

\* The one statement of the result is the whole text: a tag that is never
\* closed, then dollar-quoted text with a ";" inside.
C37_Witness ==
    /\ phase = "done"
    /\ Len(returned) = 1
    /\ returned[1].sql = <<"$", "t", "$", "$", "$", ";", "$", "$">>

----------------------------------------------------------------------------
(* C38: the scan loop advances.                                            *)

\* A step taken while the loop of the innermost unit runs, that is, one
\* iteration of it (up to the call of an include): the offset of that unit is
\* larger behind the step than before it.
Advances ==
    Scanning => /\ Len(stack') >= Len(stack)
                /\ stack'[Len(stack)].uri = Top.uri
                /\ stack'[Len(stack)].offset > Top.offset

\* No offset lies outside the text of its unit.
OffsetsInText ==
    \A i \in 1..Len(stack) : stack[i].offset \in 0..Len(Text(stack[i]))

\* A step that is no iteration of a loop moves no offset: the return of an
\* include leaves the offset of the including unit where its iteration put it.
OnlyIterationsMove ==
    ~Scanning =>
        \A i \in 1..Len(stack') : i <= Len(stack) => stack'[i].offset = stack[i].offset

\* C38: every iteration of the scan loop, in whatever state it starts (between
\* statements, in a block or line comment, in a quote, on a dollar quote, in a
\* statement), leaves the offset larger than it found it, and the offset runs
\* from 0 to at most the length of the text; so a unit is split in at most as
\* many iterations as its text has characters.
C38_OffsetAdvances ==
    /\ [][Advances]_vars
    /\ [][OnlyIterationsMove]_vars
    /\ []OffsetsInText

\* The scan has passed a block comment and a statement with its ";", and
\* stands at the end of its text.
C38_Witness ==
    /\ phase = "split"
    /\ Len(stack) = 1
    /\ Top.pc = "scan"
    /\ Top.offset = Len(Text(Top))
    /\ Text(Top) = <<"/", "*", "*", "/", "a", ";">>
    /\ Len(Top.statements) = 1

----------------------------------------------------------------------------
(* C39: the Position of an offset.                                         *)

\* The offsets at which a line terminator of the text ends: behind a "\n"
\* that stands alone, and behind the "\n" of a "\r" "\n".
TerminatorEnds(text) ==
    { k \in 1..Len(text) : text[k] = "\n" /\ (k = 1 \/ text[k - 1] # "\r") }
        \cup { k \in 2..Len(text) : text[k - 1] = "\r" /\ text[k] = "\n" }

\* The offset at which the line of the offset starts.
LineStartOf(text, offset) ==
    LET ends == { e \in TerminatorEnds(text) : e <= offset }
    IN IF ends = {} THEN 0 ELSE CHOOSE e \in ends : \A d \in ends : d <= e

\* C39: with the line starts of the text cached, the Position of an offset
\* between 0 and the length of the text has as line the number of line
\* terminators that end at or before the offset, and as character the
\* distance of the offset from the start of that line.
C39_PositionOfOffset ==
    lint.pc = "converted" =>
        LET text == files["R"].text IN
        /\ lint.position.line =
                Cardinality({ e \in TerminatorEnds(text) : e <= lint.offset })
        /\ lint.position.character = lint.offset - LineStartOf(text, lint.offset)
        /\ LineStartOf(text, lint.offset) + lint.position.character = lint.offset

\* The end of a text with a "\r" alone, a "\r" "\n" and a "\n" is converted:
\* it is the start of the third line.
C39_Witness ==
    /\ lint.pc = "converted"
    /\ files["R"].text = <<"\r", "a", "\r", "\n", "\n">>
    /\ lint.offset = 5
    /\ lint.position = [line |-> 2, character |-> 0]

====
